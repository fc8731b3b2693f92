------------------------------ MODULE Accounts ------------------------------
(***************************************************************************)
(* The accounts of the service: users, their API keys, and the number of   *)
(* requests a key may make, as concurrent requests change them.            *)
(*                                                                         *)
(* Each request has a thread and a database session (READ COMMITTED).  A   *)
(* step is one statement, with the commit that follows it.  What a         *)
(* transaction has written is visible when it commits; a row or an index   *)
(* entry it has written makes others wait until then.  A request may die   *)
(* between any two steps: its transaction is rolled back, what it has      *)
(* committed or sent to Redis stays, and what it was to answer is lost.    *)
(*                                                                         *)
(* Users are never deactivated by the service, so the second lookup of     *)
(* get_user_by_api_key always finds the owner of an active key.            *)
(***************************************************************************)
EXTENDS Naturals, FiniteSets

CONSTANTS
    Requests,    \* each made once
    Emails,
    BadKeys,     \* keys that were never issued
    Limit,       \* requests of a key in a window: rate_limit_per_minute
    MaxWindows,  \* bounds the windows of a key
    DiesAt,      \* the steps before which a request may die
    None

ASSUME LimitAssumption == Limit \in Nat \ {0}
ASSUME WindowsAssumption == MaxWindows \in Nat \ {0}
ASSUME FiniteAssumption == IsFiniteSet(Requests)
ASSUME BadKeysAssumption == BadKeys \cap Requests = {}

\* The request that creates a user or a key stands for its id.
Users == Requests
Keys == Requests

Presented == Keys \cup BadKeys

VARIABLES
    users,     \* the email of each user committed
    keys,      \* the rows of api_keys committed
    count,     \* the Redis counter of each key; 0 when there is none
    expires,   \* whether the counter has a time to live
    window,    \* how many windows of the key there have been
    pc,        \* what each request does next, or did when it died
    email,     \* the email it registers
    key,       \* the key it presents
    target,    \* the key rows its rotation has found, then the ones it has changed
    admitted,  \* the window in which it was let through
    answer     \* its response

tables  == <<users, keys>>
redis   == <<count, expires, window>>
request == <<pc, email, key, target, admitted, answer>>
vars    == <<tables, redis, request>>

KeyRow == [user : Users, active : BOOLEAN, used : BOOLEAN]
Steps == {"new", "inserting", "creating_key", "refreshing", "expiring", "finding",
          "finding_to_rotate", "stamping", "stamping_to_rotate", "rotating",
          "deactivating", "issuing", "answering"}
Answers == {"registered", "conflict", "server_error", "limited", "unauthorized",
            "served", "rotated", "died"}

ASSUME NoneAssumption == None \notin Requests \cup Emails \cup BadKeys \cup Answers

Init ==
    /\ users = [u \in {} |-> None]
    /\ keys = [k \in {} |-> None]
    /\ count = [k \in Presented |-> 0]
    /\ expires = [k \in Presented |-> FALSE]
    /\ window = [k \in Presented |-> 1]
    /\ pc = [r \in Requests |-> "new"]
    /\ email = [r \in Requests |-> None]
    /\ key = [r \in Requests |-> None]
    /\ target = [r \in Requests |-> {}]
    /\ admitted = [r \in Requests |-> 0]
    /\ answer = [r \in Requests |-> None]

-----------------------------------------------------------------------------
(* Operators                                                               *)

\* Definitions named Flawed... are the plausible mistakes the properties catch;
\* no action uses them.

Registered == DOMAIN users
Issued == DOMAIN keys

At(r, step) == pc[r] = step /\ answer[r] = None
Moves(r, step) == pc' = [pc EXCEPT ![r] = step]
Replies(r, a) == answer' = [answer EXCEPT ![r] = a]

\* The unique index on users.email: an entry committed, or written by a
\* transaction still open, for which an insert waits.
Taken(e) == \E u \in Registered : users[u] = e
Claimed(e) == \E r \in Requests : At(r, "creating_key") /\ email[r] = e

\* A row that a transaction still open has changed.
Locked(k) == \E r \in Requests : At(r, "issuing") /\ k \in target[r]

ActiveKeysOf(u) == {k \in Issued : keys[k].user = u /\ keys[k].active}

\* Made before the flush has given the user an id.
FlawedNewKey(r, u) == [user |-> None, active |-> TRUE, used |-> FALSE]

NewKey(r, u) == [user |-> u, active |-> TRUE, used |-> FALSE]

-----------------------------------------------------------------------------
(* Registering                                                             *)

\* The lookup of register_user.
CheckEmail(r, e) ==
    /\ At(r, "new")
    /\ email' = [email EXCEPT ![r] = e]
    /\ \/ Taken(e) /\ Replies(r, "conflict") /\ UNCHANGED pc
       \/ ~Taken(e) /\ Moves(r, "inserting") /\ UNCHANGED answer
    /\ UNCHANGED <<tables, redis, key, target, admitted>>

\* No unique index behind the lookup.
FlawedInsertUser(r) ==
    /\ At(r, "inserting")
    /\ Moves(r, "creating_key")
    /\ UNCHANGED <<tables, redis, email, key, target, admitted, answer>>

\* The flush; an IntegrityError is not the ValueError the handler expects.
InsertUser(r) ==
    /\ At(r, "inserting")
    /\ ~Claimed(email[r])
    /\ \/ Taken(email[r]) /\ Replies(r, "server_error") /\ UNCHANGED pc
       \/ ~Taken(email[r]) /\ Moves(r, "creating_key") /\ UNCHANGED answer
    /\ UNCHANGED <<tables, redis, email, key, target, admitted>>

\* The first key, and the commit of both rows.
CreateFirstKey(r) ==
    /\ At(r, "creating_key")
    /\ users' = [u \in Registered \cup {r} |-> IF u = r THEN email[r] ELSE users[u]]
    /\ keys' = [k \in Issued \cup {r} |-> IF k = r THEN NewKey(r, r) ELSE keys[k]]
    /\ Moves(r, "refreshing")
    /\ UNCHANGED <<redis, email, key, target, admitted, answer>>

\* The user is read again and the response built: it alone shows the key.
AnswerRegistration(r) ==
    /\ At(r, "refreshing")
    /\ Replies(r, "registered")
    /\ UNCHANGED <<tables, redis, pc, email, key, target, admitted>>

-----------------------------------------------------------------------------
(* Counting the requests of a key                                          *)

Admit(r, k) == admitted' = [admitted EXCEPT ![r] = window[k]]

\* One request too many.
FlawedExceeds(n) == n > Limit + 1

Exceeds(n) == n > Limit

\* INCR.
Incr(k) == count' = [count EXCEPT ![k] = @ + 1]

\* check_rate_limit: INCR, and what is decided from the number it returns.
CountRequest(r, k) ==
    /\ At(r, "new")
    /\ key' = [key EXCEPT ![r] = k]
    /\ Incr(k)
    /\ \/ /\ Exceeds(count'[k])
          /\ Replies(r, "limited")
          /\ UNCHANGED <<pc, admitted>>
       \/ /\ ~Exceeds(count'[k])
          /\ Admit(r, k)
          /\ Moves(r, IF count'[k] = 1 THEN "expiring" ELSE "finding")
          /\ UNCHANGED answer
    /\ UNCHANGED <<tables, expires, window, email, target>>

\* EXPIRE, a call of its own.
SetExpiry(r) ==
    /\ At(r, "expiring")
    /\ expires' = [expires EXCEPT ![key[r]] = TRUE]
    /\ Moves(r, "finding")
    /\ UNCHANGED <<tables, count, window, email, key, target, admitted, answer>>

\* Redis drops the counter.
WindowEnds(k) ==
    /\ expires[k]
    /\ window[k] < MaxWindows
    /\ count' = [count EXCEPT ![k] = 0]
    /\ expires' = [expires EXCEPT ![k] = FALSE]
    /\ window' = [window EXCEPT ![k] = @ + 1]
    /\ UNCHANGED <<tables, request>>

-----------------------------------------------------------------------------
(* Authenticating, for a request that needs no more (served) or to rotate  *)

\* A request to rotate is not counted.
AskToRotate(r, k) ==
    /\ At(r, "new")
    /\ key' = [key EXCEPT ![r] = k]
    /\ Moves(r, "finding_to_rotate")
    /\ UNCHANGED <<tables, redis, email, target, admitted, answer>>

\* The lookup of get_user_by_api_key.
Authentic(k) == k \in Issued /\ keys[k].active

\* get_current_user.
FindKey(r) ==
    /\ At(r, "finding") \/ At(r, "finding_to_rotate")
    /\ \/ /\ Authentic(key[r])
          /\ Moves(r, IF pc[r] = "finding" THEN "stamping" ELSE "stamping_to_rotate")
          /\ UNCHANGED answer
       \/ /\ ~Authentic(key[r])
          /\ Replies(r, "unauthorized")
          /\ UNCHANGED pc
    /\ UNCHANGED <<tables, redis, email, key, target, admitted>>

\* The whole row written back, as it was when it was found.
FlawedStamped(row) == [row EXCEPT !.used = TRUE, !.active = TRUE]

\* Only the changed column is written.
Stamped(row) == [row EXCEPT !.used = TRUE]

\* last_used_at, and its commit.
StampKey(r) ==
    /\ At(r, "stamping") \/ At(r, "stamping_to_rotate")
    /\ ~Locked(key[r])
    /\ keys' = [keys EXCEPT ![key[r]] = Stamped(@)]
    /\ \/ pc[r] = "stamping" /\ Replies(r, "served") /\ UNCHANGED pc
       \/ pc[r] = "stamping_to_rotate" /\ Moves(r, "rotating") /\ UNCHANGED answer
    /\ UNCHANGED <<users, redis, email, key, target, admitted>>

-----------------------------------------------------------------------------
(* Rotating                                                                *)

\* The keys of every user.
FlawedFindActiveKeys(r) ==
    /\ At(r, "rotating")
    /\ target' = [target EXCEPT ![r] = {k \in Issued : keys[k].active}]
    /\ Moves(r, "deactivating")
    /\ UNCHANGED <<tables, redis, email, key, admitted, answer>>

\* The UPDATE of rotate_api_key finds its rows...
FindActiveKeys(r) ==
    /\ At(r, "rotating")
    /\ target' = [target EXCEPT ![r] = ActiveKeysOf(keys[key[r]].user)]
    /\ Moves(r, "deactivating")
    /\ UNCHANGED <<tables, redis, email, key, admitted, answer>>

\* A rotation that finds its keys deactivated by another one waits for ever.
FlawedDeactivateKeys(r) ==
    /\ At(r, "deactivating")
    /\ \A k \in target[r] : ~Locked(k) /\ keys[k].active
    /\ Moves(r, "issuing")
    /\ UNCHANGED <<tables, redis, email, key, target, admitted, answer>>

\* ...waits for the transactions that have changed them, and changes those that
\* are active still.
DeactivateKeys(r) ==
    /\ At(r, "deactivating")
    /\ \A k \in target[r] : ~Locked(k)
    /\ target' = [target EXCEPT ![r] = {k \in @ : keys[k].active}]
    /\ Moves(r, "issuing")
    /\ UNCHANGED <<tables, redis, email, key, admitted, answer>>

\* Only the old keys are committed.
FlawedIssueKey(r) ==
    /\ At(r, "issuing")
    /\ keys' = [k \in Issued |-> IF k \in target[r] THEN [keys[k] EXCEPT !.active = FALSE]
                                 ELSE keys[k]]
    /\ Moves(r, "answering")
    /\ UNCHANGED <<users, redis, email, key, target, admitted, answer>>

\* The new key, and the commit.
IssueKey(r) ==
    /\ At(r, "issuing")
    /\ keys' = [k \in Issued \cup {r} |->
                    IF k = r THEN NewKey(r, keys[key[r]].user)
                    ELSE IF k \in target[r] THEN [keys[k] EXCEPT !.active = FALSE]
                    ELSE keys[k]]
    /\ Moves(r, "answering")
    /\ UNCHANGED <<users, redis, email, key, target, admitted, answer>>

\* The response, which alone shows the new key.
AnswerRotation(r) ==
    /\ At(r, "answering")
    /\ Replies(r, "rotated")
    /\ UNCHANGED <<tables, redis, pc, email, key, target, admitted>>

-----------------------------------------------------------------------------
(* The specification                                                       *)

\* The process of a request dies, or its connection to the database does.
Die(r) ==
    /\ answer[r] = None
    /\ pc[r] \in DiesAt
    /\ Replies(r, "died")
    /\ UNCHANGED <<tables, redis, pc, email, key, target, admitted>>

Registers(r) == InsertUser(r) \/ CreateFirstKey(r) \/ AnswerRegistration(r)

Authenticates(r) == SetExpiry(r) \/ FindKey(r) \/ StampKey(r)

Rotates(r) == FindActiveKeys(r) \/ DeactivateKeys(r) \/ IssueKey(r) \/ AnswerRotation(r)

Continues(r) == Registers(r) \/ Authenticates(r) \/ Rotates(r)

Starts(r) ==
    \/ \E e \in Emails : CheckEmail(r, e)
    \/ \E k \in Issued \cup BadKeys : CountRequest(r, k) \/ AskToRotate(r, k)

Next ==
    \/ \E r \in Requests : Starts(r) \/ Continues(r) \/ Die(r)
    \/ \E k \in Presented : WindowEnds(k)

Spec == Init /\ [][Next]_vars

\* A thread goes on until it answers; the database ends the waits of a
\* transaction whose turn has come.  Nobody need make a request.
FairSpec == Spec /\ \A r \in Requests : WF_vars(Continues(r))

-----------------------------------------------------------------------------
(* Properties                                                              *)

\* Type invariant: every variable keeps its type.
TypeOK ==
    /\ users \in [Registered -> Emails] /\ Registered \subseteq Users
    /\ keys \in [Issued -> KeyRow] /\ Issued \subseteq Keys
    /\ count \in [Presented -> Nat]
    /\ expires \in [Presented -> BOOLEAN]
    /\ window \in [Presented -> 1..MaxWindows]
    /\ pc \in [Requests -> Steps]
    /\ email \in [Requests -> Emails \cup {None}]
    /\ key \in [Requests -> Presented \cup {None}]
    /\ target \in [Requests -> SUBSET Keys]
    /\ admitted \in [Requests -> 0..MaxWindows]
    /\ answer \in [Requests -> Answers \cup {None}]

\* However lookups and inserts of registrations interleave, no two users share an
\* email, and the user of every registration answered 201 is there.
EmailsStayUnique ==
    /\ \A u, v \in Registered : users[u] = users[v] => u = v
    /\ \A r \in Requests : answer[r] = "registered" => r \in Registered /\ users[r] = email[r]

\* No interleaving of registrations and rotations, and no death of a request in the
\* middle of one, leaves a registered user without an active key.  That somebody knows
\* the key is another matter: a request that dies after its commit takes the one
\* response that shows it along.
ActiveKeyRemains == \A u \in Registered : ActiveKeysOf(u) # {}

\* The key a rotation was asked with is dead once the rotation is answered, whatever
\* other rotations and authentications of the same user do meanwhile or later.
RotatedAwayIsDead ==
    \A r \in Requests : answer[r] = "rotated" => ~keys[key[r]].active

\* A commit deactivates only keys of the user whose key the rotation was asked with, and
\* no step ever makes a deactivated key active again: the stamp of a request that was
\* authenticated before the rotation does not undo it.
KeysChangeByTheirOwner ==
    [][\A k \in Issued :
          /\ k \in DOMAIN keys'
          /\ keys'[k].user = keys[k].user
          /\ keys'[k].active # keys[k].active =>
                /\ keys[k].active
                /\ \E r \in Requests :
                      /\ pc[r] = "issuing" /\ pc'[r] = "answering"
                      /\ keys[key[r]].user = keys[k].user]_vars

\* In no window of a key are more than Limit requests let through.
AtMostLimitPerWindow ==
    \A k \in Presented : \A w \in 1..MaxWindows :
        Cardinality({r \in Requests : key[r] = k /\ admitted[r] = w}) <= Limit

\* Waits for locks of other transactions end: again and again every request made so
\* far has been answered, or has died.
EveryRequestEnds ==
    []<>(\A r \in Requests : pc[r] = "new" \/ answer[r] # None)

=============================================================================
