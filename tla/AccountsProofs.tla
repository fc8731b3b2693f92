--------------------------- MODULE AccountsProofs ---------------------------
(***************************************************************************)
(* What Accounts guarantees for any number of requests, emails and windows *)
(* and any limit, with requests that die at any step: unique emails, a key *)
(* for every user, dead rotated keys, and no window over its limit.        *)
(***************************************************************************)
EXTENDS Accounts, FiniteSetTheorems, TLAPS

-----------------------------------------------------------------------------
(* The inductive invariant                                                 *)

\* A request that has created rows has only its answer to give; a user not yet
\* committed holds its email alone.
RegistrationInv ==
    /\ \A r \in Requests : r \in Registered \cup Issued => pc[r] \in {"refreshing", "answering"}
    /\ \A r \in Requests : pc[r] = "refreshing" => r \in Registered /\ users[r] = email[r]
    /\ \A r \in Requests : answer[r] = "registered" => pc[r] = "refreshing"
    /\ \A r \in Requests : pc[r] \in {"inserting", "creating_key"} => email[r] \in Emails
    /\ \A r \in Requests : At(r, "creating_key") => ~Taken(email[r])
    /\ \A r, q \in Requests :
          At(r, "creating_key") /\ At(q, "creating_key") /\ email[r] = email[q] => r = q

Authenticated == {"stamping", "stamping_to_rotate", "rotating", "deactivating", "issuing",
                  "answering"}

\* What a request has found remains true of the rows it has found: a key keeps its
\* user, and is not active again once it is not.
KeyInv ==
    /\ \A k \in Issued : keys[k].user \in Registered
    /\ \A r \in Requests : pc[r] \in Authenticated => key[r] \in Issued
    /\ \A r \in Requests : pc[r] \in {"deactivating", "issuing"} =>
          /\ \A k \in target[r] : k \in Issued /\ keys[k].user = keys[key[r]].user
          /\ key[r] \in target[r] \/ ~keys[key[r]].active
    /\ \A r \in Requests : pc[r] = "answering" => ~keys[key[r]].active
    /\ \A r \in Requests : answer[r] = "rotated" => pc[r] = "answering"

\* Those let through in window w of key k.
Admitted(k, w) == {r \in Requests : key[r] = k /\ admitted[r] = w}

\* The current window has counted everyone it let through; later ones nobody.
CountInv ==
    /\ \A k \in Presented : Cardinality(Admitted(k, window[k])) <= count[k]
    /\ \A k \in Presented : \A w \in 1 .. MaxWindows : w > window[k] => Admitted(k, w) = {}
    /\ \A r \in Requests : At(r, "new") => admitted[r] = 0

IInv ==
    /\ TypeOK /\ RegistrationInv /\ EmailsStayUnique
    /\ KeyInv /\ ActiveKeyRemains /\ RotatedAwayIsDead
    /\ CountInv /\ AtMostLimitPerWindow

-----------------------------------------------------------------------------
(* Types                                                                   *)

LEMMA InitTypes == Init => TypeOK
BY WindowsAssumption DEF Init, TypeOK, Registered, Issued, Steps

\* The windows of a key are numbers.
LEMMA WindowIsNat == TypeOK => \A k \in Presented : window[k] \in Nat /\ window[k] + 1 \in Nat
BY WindowsAssumption DEF TypeOK

LEMMA TypesStep == TypeOK /\ RegistrationInv /\ KeyInv /\ [Next]_vars => TypeOK'
<1> SUFFICES ASSUME TypeOK, RegistrationInv, KeyInv, [Next]_vars PROVE TypeOK'
    OBVIOUS
<1> USE WindowsAssumption
    DEF TypeOK, Registered, Issued, Users, Keys, Presented, Steps, Answers,
        tables, redis, request, At, Moves, Replies
<1>1. ASSUME NEW r \in Requests, NEW e \in Emails, CheckEmail(r, e) PROVE TypeOK'
    BY <1>1 DEF CheckEmail
<1>2. ASSUME NEW r \in Requests, InsertUser(r) PROVE TypeOK'
    BY <1>2 DEF InsertUser
<1>3. ASSUME NEW r \in Requests, CreateFirstKey(r) PROVE TypeOK'
    BY <1>3 DEF CreateFirstKey, NewKey, KeyRow, RegistrationInv
<1>4. ASSUME NEW r \in Requests, NEW k \in Issued \cup BadKeys, CountRequest(r, k) PROVE TypeOK'
    <2>1. key' \in [Requests -> Presented \cup {None}] /\ count' \in [Presented -> Nat]
        BY <1>4 DEF CountRequest, Incr
    <2>2. admitted' \in [Requests -> 0 .. MaxWindows]
        BY <1>4 DEF CountRequest, Admit
    <2>3. pc' \in [Requests -> Steps] /\ answer' \in [Requests -> Answers \cup {None}]
        BY <1>4 DEF CountRequest
    <2> QED
        BY <1>4, <2>1, <2>2, <2>3 DEF CountRequest
<1>5. ASSUME NEW r \in Requests, SetExpiry(r) PROVE TypeOK'
    BY <1>5 DEF SetExpiry
<1>6. ASSUME NEW k \in Presented, WindowEnds(k) PROVE TypeOK'
    BY <1>6 DEF WindowEnds
<1>7. ASSUME NEW r \in Requests, NEW k \in Issued \cup BadKeys, AskToRotate(r, k) PROVE TypeOK'
    BY <1>7 DEF AskToRotate
<1>8. ASSUME NEW r \in Requests, FindKey(r) PROVE TypeOK'
    BY <1>8 DEF FindKey
<1>9. ASSUME NEW r \in Requests, StampKey(r) PROVE TypeOK'
    <2>1. key[r] \in DOMAIN keys
        BY <1>9 DEF StampKey, KeyInv, Authenticated
    <2>2. Stamped(keys[key[r]]) \in KeyRow
        <3>1. keys[key[r]] \in KeyRow
            BY <2>1
        <3> QED
            BY <3>1 DEF Stamped, KeyRow
    <2>3. keys' = [keys EXCEPT ![key[r]] = Stamped(keys[key[r]])]
        BY <1>9 DEF StampKey
    <2>4. keys' \in [DOMAIN keys -> KeyRow] /\ DOMAIN keys' = DOMAIN keys
        BY <2>1, <2>2, <2>3
    <2>5. pc' \in [Requests -> Steps] /\ answer' \in [Requests -> Answers \cup {None}]
        BY <1>9 DEF StampKey
    <2> QED
        BY <1>9, <2>4, <2>5 DEF StampKey
<1>10. ASSUME NEW r \in Requests, FindActiveKeys(r) PROVE TypeOK'
    BY <1>10 DEF FindActiveKeys, ActiveKeysOf
<1>11. ASSUME NEW r \in Requests, DeactivateKeys(r) PROVE TypeOK'
    BY <1>11 DEF DeactivateKeys
<1>12. ASSUME NEW r \in Requests, IssueKey(r) PROVE TypeOK'
    <2>1. key[r] \in DOMAIN keys
        BY <1>12 DEF IssueKey, KeyInv, Authenticated
    <2>2. NewKey(r, keys[key[r]].user) \in KeyRow
        BY <2>1 DEF NewKey, KeyRow
    <2>3. \A k \in DOMAIN keys : [keys[k] EXCEPT !.active = FALSE] \in KeyRow
        BY DEF KeyRow
    <2> QED
        BY <1>12, <2>2, <2>3 DEF IssueKey
<1>15. ASSUME NEW r \in Requests, AnswerRegistration(r) PROVE TypeOK'
    BY <1>15 DEF AnswerRegistration
<1>16. ASSUME NEW r \in Requests, AnswerRotation(r) PROVE TypeOK'
    BY <1>16 DEF AnswerRotation
<1>13. ASSUME NEW r \in Requests, Die(r) PROVE TypeOK'
    BY <1>13 DEF Die
<1>14. CASE UNCHANGED vars
    BY <1>14 DEF vars
<1> QED
    BY <1>1, <1>2, <1>3, <1>4, <1>5, <1>6, <1>7, <1>8, <1>9, <1>10, <1>11, <1>12, <1>13, <1>14,
       <1>15, <1>16
       DEF Next, Starts, Continues, Registers, Authenticates, Rotates

-----------------------------------------------------------------------------
(* Registrations                                                           *)

LEMMA InitRegistration == Init => RegistrationInv /\ EmailsStayUnique
<1> SUFFICES ASSUME Init PROVE RegistrationInv /\ EmailsStayUnique
    OBVIOUS
<1>1. Registered = {} /\ Issued = {} /\ \A r \in Requests : pc[r] = "new" /\ answer[r] = None
    BY DEF Init, Registered, Issued
<1>2. \A r \in Requests : answer[r] # "registered"
    BY <1>1, NoneAssumption DEF Answers
<1> QED
    BY <1>1, <1>2 DEF RegistrationInv, EmailsStayUnique, At

\* The unique index, entries of open transactions included, is what keeps emails
\* unique; the lookup before it is not needed.
LEMMA RegistrationStep ==
    TypeOK /\ RegistrationInv /\ EmailsStayUnique /\ [Next]_vars
        => RegistrationInv' /\ EmailsStayUnique'
<1> SUFFICES ASSUME TypeOK, RegistrationInv, EmailsStayUnique, [Next]_vars
             PROVE  RegistrationInv' /\ EmailsStayUnique'
    OBVIOUS
<1> USE NoneAssumption
    DEF RegistrationInv, EmailsStayUnique, TypeOK, Registered, Issued, Users, Keys,
        tables, redis, request, At, Moves, Replies, Taken, Answers
<1>1. ASSUME NEW r \in Requests, NEW e \in Emails, CheckEmail(r, e)
      PROVE  RegistrationInv' /\ EmailsStayUnique'
    BY <1>1 DEF CheckEmail
<1>2. ASSUME NEW r \in Requests, InsertUser(r) PROVE RegistrationInv' /\ EmailsStayUnique'
    BY <1>2 DEF InsertUser, Claimed
<1>3. ASSUME NEW r \in Requests, CreateFirstKey(r)
      PROVE  RegistrationInv' /\ EmailsStayUnique'
    <2>1. /\ Registered' = Registered \cup {r} /\ Issued' = Issued \cup {r}
          /\ users'[r] = email[r] /\ \A u \in Registered \ {r} : users'[u] = users[u]
          /\ r \notin Registered /\ ~Taken(email[r])
        BY <1>3 DEF CreateFirstKey
    <2>2. /\ pc[r] = "creating_key" /\ pc' = [pc EXCEPT ![r] = "refreshing"]
          /\ email' = email /\ answer' = answer
        BY <1>3 DEF CreateFirstKey
    <2>3. \A q \in Requests : At(q, "creating_key")' => q # r /\ At(q, "creating_key")
        BY <2>2
    <2>4. \A q \in Requests : At(q, "creating_key")' => email[q] # email[r]
        BY <1>3, <2>3 DEF CreateFirstKey
    <2>5. RegistrationInv'
        BY <2>1, <2>2, <2>3, <2>4
    <2>6. EmailsStayUnique'
        BY <2>1, <2>2
    <2> QED
        BY <2>5, <2>6
<1>4. ASSUME NEW r \in Requests, NEW k \in Issued \cup BadKeys, CountRequest(r, k)
      PROVE  RegistrationInv' /\ EmailsStayUnique'
    BY <1>4 DEF CountRequest
<1>5. ASSUME NEW r \in Requests, SetExpiry(r) PROVE RegistrationInv' /\ EmailsStayUnique'
    BY <1>5 DEF SetExpiry
<1>6. ASSUME NEW k \in Presented, WindowEnds(k) PROVE RegistrationInv' /\ EmailsStayUnique'
    BY <1>6 DEF WindowEnds
<1>7. ASSUME NEW r \in Requests, NEW k \in Issued \cup BadKeys, AskToRotate(r, k)
      PROVE  RegistrationInv' /\ EmailsStayUnique'
    BY <1>7 DEF AskToRotate
<1>8. ASSUME NEW r \in Requests, FindKey(r) PROVE RegistrationInv' /\ EmailsStayUnique'
    BY <1>8 DEF FindKey
<1>9. ASSUME NEW r \in Requests, StampKey(r) PROVE RegistrationInv' /\ EmailsStayUnique'
    <2>1. Issued' = Issued /\ UNCHANGED <<users, email>>
        BY <1>9 DEF StampKey
    <2>2. \A q \in Requests : answer'[q] = answer[q] \/ answer'[q] = "served"
        BY <1>9 DEF StampKey
    <2>3. \A q \in Requests :
              pc'[q] = pc[q] \/ (pc[q] = "stamping_to_rotate" /\ pc'[q] = "rotating")
        BY <1>9 DEF StampKey
    <2>4. \A q \in Requests : answer'[q] = None => answer[q] = None
        BY <1>9 DEF StampKey
    <2>5. (\A q \in Requests : At(q, "creating_key")' => At(q, "creating_key"))
          /\ Taken(email[r])' = Taken(email[r])
        BY <2>1, <2>3, <2>4
    <2>6. RegistrationInv'
        <3>1. \A q \in Requests : q \in Registered' \cup Issued' => pc'[q] \in {"refreshing", "answering"}
            BY <2>1, <2>3
        <3>2. \A q \in Requests : pc'[q] = "refreshing" => q \in Registered' /\ users'[q] = email'[q]
            BY <2>1, <2>3
        <3>3. \A q \in Requests : answer'[q] = "registered" => pc'[q] = "refreshing"
            BY <2>2, <2>3
        <3>4. \A q \in Requests : pc'[q] \in {"inserting", "creating_key"} => email'[q] \in Emails
            BY <2>1, <2>3
        <3>5. \A q \in Requests : At(q, "creating_key")' => ~Taken(email[q])'
            BY <2>1, <2>5
        <3>6. \A p, q \in Requests :
                  At(p, "creating_key")' /\ At(q, "creating_key")' /\ email'[p] = email'[q] => p = q
            BY <2>1, <2>5
        <3> QED
            BY <3>1, <3>2, <3>3, <3>4, <3>5, <3>6
    <2>7. EmailsStayUnique'
        BY <2>1, <2>2
    <2> QED
        BY <2>6, <2>7
<1>10. ASSUME NEW r \in Requests, FindActiveKeys(r) PROVE RegistrationInv' /\ EmailsStayUnique'
    BY <1>10 DEF FindActiveKeys
<1>11. ASSUME NEW r \in Requests, DeactivateKeys(r) PROVE RegistrationInv' /\ EmailsStayUnique'
    BY <1>11 DEF DeactivateKeys
<1>12. ASSUME NEW r \in Requests, IssueKey(r) PROVE RegistrationInv' /\ EmailsStayUnique'
    <2>1. Issued' = Issued \cup {r} /\ users' = users /\ email' = email /\ answer' = answer
        BY <1>12 DEF IssueKey
    <2>2. pc[r] = "issuing" /\ pc' = [pc EXCEPT ![r] = "answering"]
        BY <1>12 DEF IssueKey
    <2> QED
        BY <2>1, <2>2
<1>15. ASSUME NEW r \in Requests, AnswerRegistration(r) PROVE RegistrationInv' /\ EmailsStayUnique'
    BY <1>15 DEF AnswerRegistration
<1>16. ASSUME NEW r \in Requests, AnswerRotation(r) PROVE RegistrationInv' /\ EmailsStayUnique'
    BY <1>16 DEF AnswerRotation
<1>13. ASSUME NEW r \in Requests, Die(r) PROVE RegistrationInv' /\ EmailsStayUnique'
    BY <1>13 DEF Die
<1>14. CASE UNCHANGED vars
    BY <1>14 DEF vars
<1> QED
    BY <1>1, <1>2, <1>3, <1>4, <1>5, <1>6, <1>7, <1>8, <1>9, <1>10, <1>11, <1>12, <1>13, <1>14,
       <1>15, <1>16
       DEF Next, Starts, Continues, Registers, Authenticates, Rotates

-----------------------------------------------------------------------------
(* Keys                                                                    *)

\* Every key stays, with its user, and is not made active.
KeysKept ==
    \A k \in Issued : /\ k \in Issued'
                      /\ keys'[k].user = keys[k].user
                      /\ keys'[k].active => keys[k].active

LEMMA InitKeys == Init => KeyInv /\ ActiveKeyRemains /\ RotatedAwayIsDead
<1> SUFFICES ASSUME Init PROVE KeyInv /\ ActiveKeyRemains /\ RotatedAwayIsDead
    OBVIOUS
<1>1. Registered = {} /\ Issued = {} /\ \A r \in Requests : pc[r] = "new" /\ answer[r] = None
    BY DEF Init, Registered, Issued
<1> QED
    BY <1>1, NoneAssumption DEF KeyInv, ActiveKeyRemains, RotatedAwayIsDead, Authenticated, Answers

\* The steps of a request that leave users and keys alone.
LEMMA LookingStep ==
    ASSUME TypeOK, KeyInv, ActiveKeyRemains, RotatedAwayIsDead, UNCHANGED tables,
           NEW r \in Requests,
           \A q \in Requests \ {r} : /\ pc'[q] = pc[q] /\ key'[q] = key[q]
                                    /\ target'[q] = target[q] /\ answer'[q] = answer[q],
           answer'[r] = "rotated" => pc'[r] = "answering",
           pc'[r] = "answering" => pc[r] = "answering" /\ key'[r] = key[r],
           pc'[r] \in Authenticated => key'[r] \in Issued,
           pc'[r] \in {"deactivating", "issuing"} =>
               /\ \A k \in target'[r] : k \in Issued /\ keys[k].user = keys[key'[r]].user
               /\ key'[r] \in target'[r] \/ ~keys[key'[r]].active
    PROVE  KeyInv' /\ ActiveKeyRemains' /\ RotatedAwayIsDead'
<1>1. KeyInv'
    BY DEF KeyInv, tables, Registered, Issued
<1>2. ActiveKeyRemains'
    BY DEF ActiveKeyRemains, tables, Registered, Issued, ActiveKeysOf
<1>3. ASSUME NEW q \in Requests, answer'[q] = "rotated" PROVE ~keys'[key'[q]].active
    <2>1. CASE q = r
        <3>1. pc[r] = "answering" /\ key'[r] = key[r]
            BY <1>3, <2>1
        <3>2. ~keys[key[r]].active
            BY <3>1 DEF KeyInv
        <3> QED
            BY <2>1, <3>1, <3>2 DEF tables
    <2>2. CASE q # r
        BY <1>3, <2>2 DEF RotatedAwayIsDead, tables
    <2> QED
        BY <2>1, <2>2
<1>4. RotatedAwayIsDead'
    BY <1>3 DEF RotatedAwayIsDead
<1> QED
    BY <1>1, <1>2, <1>4

\* A step that writes keys, its request answering or going on to rotate.
LEMMA WritingStep ==
    ASSUME TypeOK, KeyInv, RotatedAwayIsDead, KeysKept,
           Registered \subseteq Registered',
           NEW r \in Requests,
           UNCHANGED <<key, target>>,
           \A q \in Requests \ {r} : pc'[q] = pc[q] /\ answer'[q] = answer[q],
           \A k \in Issued' : k \in Issued \/ keys'[k].user \in Registered',
           \/ pc'[r] \in {pc[r], "refreshing"}
           \/ pc[r] \in Authenticated /\ pc'[r] = "rotating"
           \/ pc[r] = "issuing" /\ pc'[r] = "answering" /\ ~keys'[key[r]].active,
           answer'[r] = "rotated" => answer[r] = "rotated" /\ pc'[r] = pc[r]
    PROVE  KeyInv' /\ RotatedAwayIsDead'
<1>1. \A k \in Issued' : keys'[k].user \in Registered'
    BY DEF KeyInv, KeysKept
<1>2. \A q \in Requests : pc'[q] \in Authenticated => key[q] \in Issued /\ key[q] \in Issued'
    BY DEF KeyInv, KeysKept, Authenticated
<1>3. ASSUME NEW q \in Requests, pc'[q] \in {"deactivating", "issuing"}
      PROVE  /\ \A k \in target[q] : k \in Issued' /\ keys'[k].user = keys'[key[q]].user
             /\ key[q] \in target[q] \/ ~keys'[key[q]].active
    <2>1. pc[q] \in {"deactivating", "issuing"} /\ key[q] \in Issued
        BY <1>2, <1>3 DEF Authenticated
    <2> QED
        BY <2>1 DEF KeyInv, KeysKept
<1>4. \A q \in Requests : pc'[q] = "answering" => ~keys'[key[q]].active
    BY DEF KeyInv, KeysKept, Authenticated
<1>5. \A q \in Requests : answer'[q] = "rotated" => pc'[q] = "answering"
    BY DEF KeyInv
<1> QED
    BY <1>1, <1>2, <1>3, <1>4, <1>5 DEF KeyInv, RotatedAwayIsDead

\* No rotation takes a user's last key without leaving another.
LEMMA KeysStep ==
    TypeOK /\ RegistrationInv /\ KeyInv /\ ActiveKeyRemains /\ RotatedAwayIsDead /\ [Next]_vars
        => KeyInv' /\ ActiveKeyRemains' /\ RotatedAwayIsDead'
<1> SUFFICES ASSUME TypeOK, RegistrationInv, KeyInv, ActiveKeyRemains, RotatedAwayIsDead,
                    [Next]_vars
             PROVE  KeyInv' /\ ActiveKeyRemains' /\ RotatedAwayIsDead'
    OBVIOUS
<1> DEFINE Goal == KeyInv' /\ ActiveKeyRemains' /\ RotatedAwayIsDead'
<1> USE NoneAssumption DEF redis, request, At, Moves, Replies, Authenticated, Answers
<1>a. /\ \A r \in Requests : pc[r] \in Authenticated => key[r] \in Issued
      /\ pc \in [Requests -> Steps] /\ answer \in [Requests -> Answers \cup {None}]
      /\ key \in [Requests -> Presented \cup {None}] /\ target \in [Requests -> SUBSET Keys]
      /\ keys \in [Issued -> KeyRow]
    BY DEF KeyInv, TypeOK
<1>1. ASSUME NEW r \in Requests, NEW e \in Emails, CheckEmail(r, e) PROVE Goal
    BY <1>1, <1>a, LookingStep DEF CheckEmail
<1>2. ASSUME NEW r \in Requests, InsertUser(r) PROVE Goal
    BY <1>2, <1>a, LookingStep DEF InsertUser
<1>4. ASSUME NEW r \in Requests, NEW k \in Issued \cup BadKeys, CountRequest(r, k) PROVE Goal
    BY <1>4, <1>a, LookingStep DEF CountRequest
<1>5. ASSUME NEW r \in Requests, SetExpiry(r) PROVE Goal
    BY <1>5, <1>a, LookingStep DEF SetExpiry
<1>6. ASSUME NEW k \in Presented, WindowEnds(k) PROVE Goal
    BY <1>6 DEF WindowEnds, KeyInv, ActiveKeyRemains, RotatedAwayIsDead, tables,
                Registered, Issued, ActiveKeysOf
<1>7. ASSUME NEW r \in Requests, NEW k \in Issued \cup BadKeys, AskToRotate(r, k) PROVE Goal
    BY <1>7, <1>a, LookingStep DEF AskToRotate
<1>8. ASSUME NEW r \in Requests, FindKey(r) PROVE Goal
    BY <1>8, <1>a, LookingStep DEF FindKey, Authentic
<1>10. ASSUME NEW r \in Requests, FindActiveKeys(r) PROVE Goal
    <2>1. target'[r] = ActiveKeysOf(keys[key[r]].user) /\ pc'[r] = "deactivating"
        BY <1>10, <1>a DEF FindActiveKeys
    <2>2. /\ \A k \in target'[r] : k \in Issued /\ keys[k].user = keys[key[r]].user
          /\ key[r] \in target'[r] \/ ~keys[key[r]].active
        BY <1>10, <1>a, <2>1 DEF FindActiveKeys, ActiveKeysOf
    <2> QED
        BY <1>10, <1>a, <2>2, LookingStep DEF FindActiveKeys
<1>11. ASSUME NEW r \in Requests, DeactivateKeys(r) PROVE Goal
    <2>1. target'[r] = {k \in target[r] : keys[k].active} /\ pc[r] = "deactivating"
        BY <1>11, <1>a DEF DeactivateKeys
    <2>2. /\ \A k \in target'[r] : k \in Issued /\ keys[k].user = keys[key[r]].user
          /\ key[r] \in target'[r] \/ ~keys[key[r]].active
        BY <2>1 DEF KeyInv
    <2> QED
        BY <1>11, <1>a, <2>2, LookingStep DEF DeactivateKeys
<1>15. ASSUME NEW r \in Requests, AnswerRegistration(r) PROVE Goal
    BY <1>15, <1>a, LookingStep DEF AnswerRegistration, KeyInv
<1>16. ASSUME NEW r \in Requests, AnswerRotation(r) PROVE Goal
    BY <1>16, <1>a, LookingStep DEF AnswerRotation, KeyInv
<1>13. ASSUME NEW r \in Requests, Die(r) PROVE Goal
    BY <1>13, <1>a, LookingStep DEF Die, KeyInv
<1>3. ASSUME NEW r \in Requests, CreateFirstKey(r) PROVE Goal
    <2>1. r \notin Issued /\ r \notin Registered
        BY <1>3 DEF CreateFirstKey, RegistrationInv
    <2>2. /\ Registered' = Registered \cup {r} /\ Issued' = Issued \cup {r}
          /\ keys'[r] = NewKey(r, r) /\ \A k \in Issued : keys'[k] = keys[k]
        BY <1>3, <2>1 DEF CreateFirstKey, Registered, Issued
    <2>3. KeysKept
        BY <2>2 DEF KeysKept
    <2>4. KeyInv' /\ RotatedAwayIsDead'
        BY <1>3, <1>a, <2>2, <2>3, WritingStep DEF CreateFirstKey, NewKey
    <2>5. ActiveKeyRemains'
        BY <2>2 DEF ActiveKeyRemains, ActiveKeysOf, NewKey
    <2> QED
        BY <2>4, <2>5
<1>9. ASSUME NEW r \in Requests, StampKey(r) PROVE Goal
    <2>1. key[r] \in Issued /\ keys[key[r]] \in KeyRow
        BY <1>9, <1>a DEF StampKey
    <2>2. /\ Registered' = Registered /\ Issued' = Issued
          /\ \A k \in Issued : keys'[k].user = keys[k].user /\ keys'[k].active = keys[k].active
        BY <1>9, <1>a, <2>1 DEF StampKey, Stamped, Registered, Issued, KeyRow
    <2>3. KeysKept
        BY <2>2 DEF KeysKept
    <2>4. KeyInv' /\ RotatedAwayIsDead'
        BY <1>9, <1>a, <2>2, <2>3, WritingStep DEF StampKey, RotatedAwayIsDead
    <2>5. ActiveKeyRemains'
        BY <2>2 DEF ActiveKeyRemains, ActiveKeysOf
    <2> QED
        BY <2>4, <2>5
<1>12. ASSUME NEW r \in Requests, IssueKey(r) PROVE Goal
    <2>1. r \notin Issued /\ key[r] \in Issued /\ pc[r] = "issuing"
        BY <1>12, <1>a DEF IssueKey, RegistrationInv
    <2>2. /\ Registered' = Registered /\ Issued' = Issued \cup {r}
          /\ keys'[r] = NewKey(r, keys[key[r]].user)
          /\ \A k \in Issued : keys'[k] = IF k \in target[r] THEN [keys[k] EXCEPT !.active = FALSE]
                                          ELSE keys[k]
        BY <1>12, <2>1 DEF IssueKey, Registered, Issued
    <2>3. \A k \in Issued : /\ keys'[k].user = keys[k].user
                            /\ keys'[k].active => keys[k].active
                            /\ k \notin target[r] => keys'[k].active = keys[k].active
                            /\ k \in target[r] => ~keys'[k].active
        BY <1>a, <2>2 DEF KeyRow
    <2>4. KeysKept
        BY <2>2, <2>3 DEF KeysKept
    <2>5. ~keys'[key[r]].active
        BY <2>1, <2>3 DEF KeyInv
    <2>6. keys'[r].user = keys[key[r]].user /\ keys'[r].active
        BY <2>2 DEF NewKey
    <2>7. keys[key[r]].user \in Registered
        BY <2>1 DEF KeyInv
    <2>8. KeyInv' /\ RotatedAwayIsDead'
        BY <1>12, <1>a, <2>1, <2>2, <2>4, <2>5, <2>6, <2>7, WritingStep DEF IssueKey
    <2>9. ASSUME NEW u \in Registered PROVE \E k \in Issued' : keys'[k].user = u /\ keys'[k].active
        <3>1. CASE u = keys[key[r]].user
            BY <2>2, <2>6, <3>1
        <3>2. CASE u # keys[key[r]].user
            <4>1. PICK k \in Issued : keys[k].user = u /\ keys[k].active
                BY DEF ActiveKeyRemains, ActiveKeysOf
            <4>2. k \notin target[r]
                BY <2>1, <3>2, <4>1 DEF KeyInv
            <4> QED
                BY <2>2, <2>3, <4>1, <4>2
        <3> QED
            BY <3>1, <3>2
    <2>10. ActiveKeyRemains'
        BY <2>2, <2>9 DEF ActiveKeyRemains, ActiveKeysOf
    <2> QED
        BY <2>8, <2>10
<1>14. CASE UNCHANGED vars
    BY <1>14 DEF vars, KeyInv, ActiveKeyRemains, RotatedAwayIsDead, tables,
                 Registered, Issued, ActiveKeysOf
<1> QED
    BY <1>1, <1>2, <1>3, <1>4, <1>5, <1>6, <1>7, <1>8, <1>9, <1>10, <1>11, <1>12, <1>13, <1>14,
       <1>15, <1>16
       DEF Next, Starts, Continues, Registers, Authenticates, Rotates

-----------------------------------------------------------------------------
(* Counting                                                                *)

LEMMA InitCounts == Init => CountInv /\ AtMostLimitPerWindow
<1> SUFFICES ASSUME Init PROVE CountInv /\ AtMostLimitPerWindow
    OBVIOUS
<1>1. \A k, w : w \in 1 .. MaxWindows => Admitted(k, w) = {}
    BY DEF Init, Admitted
<1>2. \A k \in Presented : window[k] = 1 /\ count[k] = 0
    BY DEF Init
<1>3. 1 \in 1 .. MaxWindows
    BY WindowsAssumption
<1>4. Cardinality({}) = 0
    BY FS_EmptySet
<1>5. CountInv
    <2>1. \A k \in Presented : Admitted(k, window[k]) = {}
        BY <1>1, <1>2, <1>3
    <2>2. \A k \in Presented : Cardinality(Admitted(k, window[k])) <= count[k]
        BY <1>2, <1>4, <2>1
    <2>3. \A r \in Requests : admitted[r] = 0
        BY DEF Init
    <2> QED
        BY <1>1, <2>2, <2>3 DEF CountInv
<1>6. AtMostLimitPerWindow
    BY <1>1, <1>4, LimitAssumption DEF AtMostLimitPerWindow, Admitted
<1> QED
    BY <1>5, <1>6

\* A step that neither counts nor lets anyone through.
LEMMA UncountedStep ==
    ASSUME TypeOK, CountInv, AtMostLimitPerWindow, UNCHANGED <<count, window, admitted>>,
           \A q \in Requests : key'[q] = key[q] \/ admitted[q] = 0,
           \A q \in Requests : At(q, "new")' => At(q, "new")
    PROVE  CountInv' /\ AtMostLimitPerWindow'
<1>1. \A k \in Presented : window[k] \in 1 .. MaxWindows
    BY DEF TypeOK
<1>2. \A k, w : w \in 1 .. MaxWindows => Admitted(k, w)' = Admitted(k, w)
    BY DEF Admitted
<1>3. CountInv'
    BY <1>1, <1>2 DEF CountInv
<1>4. AtMostLimitPerWindow'
    BY <1>2 DEF AtMostLimitPerWindow, Admitted
<1> QED
    BY <1>3, <1>4

\* Each window counts those it lets through before it lets them through.
LEMMA CountsStep ==
    TypeOK /\ CountInv /\ AtMostLimitPerWindow /\ [Next]_vars
        => CountInv' /\ AtMostLimitPerWindow'
<1> SUFFICES ASSUME TypeOK, CountInv, AtMostLimitPerWindow, [Next]_vars
             PROVE  CountInv' /\ AtMostLimitPerWindow'
    OBVIOUS
<1> DEFINE Goal == CountInv' /\ AtMostLimitPerWindow'
<1> USE NoneAssumption DEF redis, request, At, Moves, Replies, Answers
<1>a. /\ pc \in [Requests -> Steps] /\ answer \in [Requests -> Answers \cup {None}]
      /\ key \in [Requests -> Presented \cup {None}]
      /\ admitted \in [Requests -> 0 .. MaxWindows] /\ window \in [Presented -> 1 .. MaxWindows]
      /\ count \in [Presented -> Nat]
      /\ \A r \in Requests : At(r, "new") => admitted[r] = 0
    BY DEF TypeOK, CountInv
<1>b. MaxWindows \in Nat /\ Limit \in Nat
    BY WindowsAssumption, LimitAssumption
<1>1. ASSUME NEW r \in Requests, NEW e \in Emails, CheckEmail(r, e) PROVE Goal
    BY <1>1, <1>a, UncountedStep DEF CheckEmail
<1>2. ASSUME NEW r \in Requests, InsertUser(r) PROVE Goal
    BY <1>2, <1>a, UncountedStep DEF InsertUser
<1>3. ASSUME NEW r \in Requests, CreateFirstKey(r) PROVE Goal
    BY <1>3, <1>a, UncountedStep DEF CreateFirstKey
<1>4. ASSUME NEW r \in Requests, NEW k \in Issued \cup BadKeys, CountRequest(r, k) PROVE Goal
    <2>1. k \in Presented
        BY DEF TypeOK, Presented
    <2>2. /\ At(r, "new") /\ admitted[r] = 0 /\ key' = [key EXCEPT ![r] = k]
          /\ count' = [count EXCEPT ![k] = @ + 1] /\ window' = window
          /\ \A q \in Requests : At(q, "new")' => At(q, "new") /\ q # r
        BY <1>4, <1>a DEF CountRequest, Incr
    <2>3. count'[k] = count[k] + 1 /\ \A j \in Presented \ {k} : count'[j] = count[j]
        BY <2>1, <2>2, <1>a
    <2>4. CASE Exceeds(count'[k])
        <3>1. admitted' = admitted
            BY <1>4, <2>4 DEF CountRequest
        <3>2. \A j, w : w \in 1 .. MaxWindows => Admitted(j, w)' = Admitted(j, w)
            BY <1>a, <2>2, <3>1 DEF Admitted
        <3>3. \A j \in Presented : Cardinality(Admitted(j, window[j])) \in Nat
            <4> SUFFICES ASSUME NEW j \in Presented
                         PROVE  Cardinality(Admitted(j, window[j])) \in Nat
                OBVIOUS
            <4>1. Admitted(j, window[j]) \subseteq Requests
                BY DEF Admitted
            <4> QED
                BY <4>1, FS_Subset, FS_CardinalityType, FiniteAssumption
        <3>4. \A j \in Presented : Cardinality(Admitted(j, window[j])') <= count'[j]
            BY <1>a, <2>2, <2>3, <3>2, <3>3 DEF CountInv
        <3>5. CountInv'
            BY <1>a, <2>2, <3>1, <3>2, <3>4 DEF CountInv
        <3>6. AtMostLimitPerWindow'
            BY <3>2 DEF AtMostLimitPerWindow, Admitted
        <3> QED
            BY <3>5, <3>6
    <2>5. CASE ~Exceeds(count'[k])
        <3>1. admitted' = [admitted EXCEPT ![r] = window[k]] /\ count'[k] <= Limit
            BY <1>4, <1>a, <1>b, <2>1, <2>3, <2>5 DEF CountRequest, Admit, Exceeds
        <3>2. window[k] \in 1 .. MaxWindows
            BY <1>a, <2>1
        <3>3. Admitted(k, window[k])' = Admitted(k, window[k]) \cup {r}
            BY <1>a, <2>2, <3>1, <3>2 DEF Admitted
        <3>4. \A j \in Presented : \A w \in 1 .. MaxWindows :
                  ~(j = k /\ w = window[k]) => Admitted(j, w)' = Admitted(j, w)
            BY <1>a, <2>2, <3>1, <3>2 DEF Admitted
        <3>5. IsFiniteSet(Admitted(k, window[k]))
            <4>1. Admitted(k, window[k]) \subseteq Requests
                BY DEF Admitted
            <4> QED
                BY <4>1, FS_Subset, FiniteAssumption
        <3>6. r \notin Admitted(k, window[k])
            BY <2>2, <3>2 DEF Admitted
        <3>7. /\ Cardinality(Admitted(k, window[k])') = Cardinality(Admitted(k, window[k])) + 1
              /\ Cardinality(Admitted(k, window[k])) \in Nat
            BY <3>3, <3>5, <3>6, FS_AddElement, FS_CardinalityType
        <3>8. Cardinality(Admitted(k, window[k])') <= count'[k]
            BY <1>a, <2>1, <2>3, <3>7 DEF CountInv
        <3>9. \A j \in Presented : Cardinality(Admitted(j, window[j])') <= count'[j]
            BY <1>a, <2>2, <2>3, <3>4, <3>8 DEF CountInv
        <3>10. \A j \in Presented : \A w \in 1 .. MaxWindows :
                   w > window[j] => Admitted(j, w)' = {}
            <4>1. \A j \in Presented : \A w \in 1 .. MaxWindows :
                      w > window[j] => ~(j = k /\ w = window[k])
                BY <1>a
            <4> QED
                BY <3>4, <4>1 DEF CountInv
        <3>11. CountInv'
            <4>1. \A q \in Requests : At(q, "new")' => admitted'[q] = 0
                BY <1>a, <2>2, <3>1
            <4> QED
                BY <2>2, <3>9, <3>10, <4>1 DEF CountInv
        <3>12. Cardinality(Admitted(k, window[k])') <= Limit
            BY <1>a, <1>b, <2>1, <2>3, <3>1, <3>7, <3>8
        <3>13. AtMostLimitPerWindow'
            <4>1. \A j \in Presented : \A w \in 1 .. MaxWindows :
                      Cardinality(Admitted(j, w)) <= Limit
                BY DEF AtMostLimitPerWindow, Admitted
            <4>2. \A j \in Presented : \A w \in 1 .. MaxWindows :
                      Cardinality(Admitted(j, w)') <= Limit
                <5> SUFFICES ASSUME NEW j \in Presented, NEW w \in 1 .. MaxWindows
                             PROVE  Cardinality(Admitted(j, w)') <= Limit
                    OBVIOUS
                <5>1. CASE j = k /\ w = window[k]
                    <6>1. Admitted(j, w)' = Admitted(k, window[k])'
                        BY <2>2, <5>1 DEF Admitted
                    <6> QED
                        BY <3>12, <6>1
                <5>2. CASE ~(j = k /\ w = window[k])
                    BY <3>4, <4>1, <5>2
                <5> QED
                    BY <5>1, <5>2
            <4> QED
                BY <4>2 DEF AtMostLimitPerWindow, Admitted
        <3> QED
            BY <3>11, <3>13
    <2> QED
        BY <2>4, <2>5
<1>5. ASSUME NEW r \in Requests, SetExpiry(r) PROVE Goal
    BY <1>5, <1>a, UncountedStep DEF SetExpiry
<1>6. ASSUME NEW k \in Presented, WindowEnds(k) PROVE Goal
    <2>1. /\ window'[k] = window[k] + 1 /\ count'[k] = 0 /\ window'[k] \in 1 .. MaxWindows
          /\ \A j \in Presented \ {k} : window'[j] = window[j] /\ count'[j] = count[j]
        BY <1>6, <1>a, <1>b DEF WindowEnds
    <2>2. key' = key /\ admitted' = admitted /\ pc' = pc /\ answer' = answer
        BY <1>6 DEF WindowEnds
    <2>3. \A j, w : Admitted(j, w)' = Admitted(j, w)
        BY <2>2 DEF Admitted
    <2>4. \A j \in Presented : \A w \in 1 .. MaxWindows : w > window'[j] => w > window[j]
        BY <1>a, <2>1
    <2>5. Admitted(k, window'[k]) = {}
        BY <1>a, <2>1 DEF CountInv
    <2>6. Cardinality(Admitted(k, window'[k])) = 0
        BY <2>5, FS_EmptySet
    <2>7. \A j \in Presented : Cardinality(Admitted(j, window'[j])) <= count'[j]
        BY <2>1, <2>6 DEF CountInv
    <2>8. \A j \in Presented : Admitted(j, window[j])' = Admitted(j, window'[j])
        BY <2>2 DEF Admitted
    <2>9. CountInv'
        BY <1>a, <2>2, <2>3, <2>4, <2>7, <2>8 DEF CountInv
    <2>10. AtMostLimitPerWindow'
        BY <2>2 DEF AtMostLimitPerWindow
    <2> QED
        BY <2>9, <2>10
<1>7. ASSUME NEW r \in Requests, NEW k \in Issued \cup BadKeys, AskToRotate(r, k) PROVE Goal
    BY <1>7, <1>a, UncountedStep DEF AskToRotate
<1>8. ASSUME NEW r \in Requests, FindKey(r) PROVE Goal
    BY <1>8, <1>a, UncountedStep DEF FindKey
<1>9. ASSUME NEW r \in Requests, StampKey(r) PROVE Goal
    BY <1>9, <1>a, UncountedStep DEF StampKey
<1>10. ASSUME NEW r \in Requests, FindActiveKeys(r) PROVE Goal
    BY <1>10, <1>a, UncountedStep DEF FindActiveKeys
<1>11. ASSUME NEW r \in Requests, DeactivateKeys(r) PROVE Goal
    BY <1>11, <1>a, UncountedStep DEF DeactivateKeys
<1>12. ASSUME NEW r \in Requests, IssueKey(r) PROVE Goal
    BY <1>12, <1>a, UncountedStep DEF IssueKey
<1>15. ASSUME NEW r \in Requests, AnswerRegistration(r) PROVE Goal
    BY <1>15, <1>a, UncountedStep DEF AnswerRegistration
<1>16. ASSUME NEW r \in Requests, AnswerRotation(r) PROVE Goal
    BY <1>16, <1>a, UncountedStep DEF AnswerRotation
<1>13. ASSUME NEW r \in Requests, Die(r) PROVE Goal
    BY <1>13, <1>a, UncountedStep DEF Die
<1>14. CASE UNCHANGED vars
    BY <1>14, UncountedStep DEF vars
<1> QED
    BY <1>1, <1>2, <1>3, <1>4, <1>5, <1>6, <1>7, <1>8, <1>9, <1>10, <1>11, <1>12, <1>13, <1>14,
       <1>15, <1>16
       DEF Next, Starts, Continues, Registers, Authenticates, Rotates

-----------------------------------------------------------------------------
(* The theorems                                                            *)

LEMMA Inductive == Spec => []IInv
<1>1. Init => IInv
    BY InitTypes, InitRegistration, InitKeys, InitCounts DEF IInv
<1>2. IInv /\ [Next]_vars => IInv'
    BY TypesStep, RegistrationStep, KeysStep, CountsStep DEF IInv
<1> QED
    BY <1>1, <1>2, PTL DEF Spec

\* Every variable of Accounts keeps its type.
THEOREM TypesHold == Spec => []TypeOK
<1>1. IInv => TypeOK
    BY DEF IInv
<1> QED
    BY <1>1, Inductive, PTL

\* However many registrations interleave, and wherever they die, emails stay unique:
\* the unique index suffices, whatever the lookup before the insert saw.
THEOREM UniqueEmails == Spec => []EmailsStayUnique
<1>1. IInv => EmailsStayUnique
    BY DEF IInv
<1> QED
    BY <1>1, Inductive, PTL

\* No rotation, finished or dead, leaves a user without an active key.
THEOREM EveryoneHasKey == Spec => []ActiveKeyRemains
<1>1. IInv => ActiveKeyRemains
    BY DEF IInv
<1> QED
    BY <1>1, Inductive, PTL

\* The key a rotation was asked with is dead for ever after its answer.
THEOREM OldKeyIsDead == Spec => []RotatedAwayIsDead
<1>1. IInv => RotatedAwayIsDead
    BY DEF IInv
<1> QED
    BY <1>1, Inductive, PTL

\* No window of a key lets more than Limit requests through, for any limit.
THEOREM LimitHolds == Spec => []AtMostLimitPerWindow
<1>1. IInv => AtMostLimitPerWindow
    BY DEF IInv
<1> QED
    BY <1>1, Inductive, PTL

\* Only a rotation deactivates keys, its own user's, and nothing makes one active again:
\* not the stamp of a request that found the key before the rotation.
THEOREM OwnersChangeKeys == Spec => KeysChangeByTheirOwner
<1> DEFINE Rotated(k) == \E r \in Requests : /\ pc[r] = "issuing" /\ pc'[r] = "answering"
                                             /\ keys[key[r]].user = keys[k].user
           Kept(k) == /\ k \in DOMAIN keys'
                      /\ keys'[k].user = keys[k].user
                      /\ keys'[k].active # keys[k].active => keys[k].active /\ Rotated(k)
           Step == \A k \in Issued : Kept(k)
<1>1. ASSUME IInv, Next PROVE Step
    <2> USE DEF At, Moves, Issued
    <2>a. /\ keys \in [Issued -> KeyRow] /\ answer \in [Requests -> Answers \cup {None}]
          /\ \A r \in Requests : pc[r] \in Authenticated => key[r] \in Issued
        BY <1>1 DEF IInv, TypeOK, KeyInv
    <2>1. CASE keys' = keys
        BY <2>1
    <2>2. ASSUME NEW r \in Requests, CreateFirstKey(r) PROVE Step
        <3>1. r \notin Issued
            BY <1>1, <2>2 DEF CreateFirstKey, IInv, RegistrationInv
        <3> QED
            BY <2>2, <3>1 DEF CreateFirstKey
    <2>3. ASSUME NEW r \in Requests, StampKey(r) PROVE Step
        <3>1. key[r] \in Issued /\ keys[key[r]] \in KeyRow
            BY <2>3, <2>a DEF StampKey, Authenticated
        <3>2. /\ DOMAIN keys' = Issued
              /\ \A k \in Issued : keys'[k].user = keys[k].user /\ keys'[k].active = keys[k].active
            BY <2>3, <2>a, <3>1 DEF StampKey, Stamped, KeyRow
        <3> QED
            BY <3>2
    <2>4. ASSUME NEW r \in Requests, IssueKey(r) PROVE Step
        <3>1. r \notin Issued /\ pc[r] = "issuing" /\ pc'[r] = "answering"
            BY <1>1, <2>4, <2>a DEF IssueKey, IInv, TypeOK, RegistrationInv
        <3>2. \A k \in Issued :
                  /\ k \in DOMAIN keys'
                  /\ keys'[k] = IF k \in target[r] THEN [keys[k] EXCEPT !.active = FALSE]
                                ELSE keys[k]
            BY <2>4, <3>1 DEF IssueKey
        <3>3. \A k \in Issued : /\ keys'[k].user = keys[k].user
                                /\ keys'[k].active => keys[k].active
                                /\ k \notin target[r] => keys'[k].active = keys[k].active
            BY <2>a, <3>2 DEF KeyRow
        <3>4. \A k \in Issued : keys[k].active \in BOOLEAN /\ keys'[k].active \in BOOLEAN
            BY <2>a, <3>2 DEF KeyRow
        <3>5. \A k \in target[r] : Rotated(k)
            BY <1>1, <3>1 DEF IInv, KeyInv
        <3>6. ASSUME NEW k \in Issued PROVE Kept(k)
            <4> HIDE DEF Rotated
            <4>1. keys'[k].active # keys[k].active => keys[k].active /\ k \in target[r]
                BY <3>3, <3>4
            <4> QED
                BY <3>2, <3>3, <3>5, <4>1
        <3> QED
            BY <3>6
    <2> QED
        BY <1>1, <2>1, <2>2, <2>3, <2>4
           DEF Next, Starts, Continues, Registers, Authenticates, Rotates, tables, CheckEmail,
               InsertUser, CountRequest, SetExpiry, WindowEnds, AskToRotate, FindKey,
               FindActiveKeys, DeactivateKeys, AnswerRegistration, AnswerRotation, Die
<1>2. IInv /\ [Next]_vars =>
        [\A k \in Issued :
            /\ k \in DOMAIN keys'
            /\ keys'[k].user = keys[k].user
            /\ keys'[k].active # keys[k].active =>
                  /\ keys[k].active
                  /\ \E r \in Requests :
                        /\ pc[r] = "issuing" /\ pc'[r] = "answering"
                        /\ keys[key[r]].user = keys[k].user]_vars
    BY <1>1
<1> QED
    BY <1>2, Inductive, PTL DEF Spec, KeysChangeByTheirOwner

=============================================================================
