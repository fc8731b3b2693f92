-------------------------- MODULE ShortLinksProofs --------------------------
(***************************************************************************)
(* What ShortLinks guarantees for any number of requests, codes and        *)
(* destinations: types, one link per code for ever, and a click counter    *)
(* that never runs ahead of the click events.                              *)
(***************************************************************************)
EXTENDS ShortLinks, FiniteSetTheorems, TLAPS

-----------------------------------------------------------------------------
(* The inductive invariant                                                 *)

Holding == {"editing", "deleting", "recording", "counting", "storing", "sending", "broken"}

\* What a request has found it has in its session, and it was stored.
SessionInv ==
    /\ \A r \in Requests : r \in Stored => pc[r] = "done"
    /\ \A r \in Requests : link[r] \in Stored \cup {None}
    /\ \A r \in Requests : pc[r] \in Holding => link[r] \in Stored /\ loaded[r] \in Row
    /\ \A r \in Requests : pc[r] = "inserting" => code[r] \in Codes
    /\ \A r \in Requests : pc[r] \in {"new", "picking"} => tries[r] < MaxAttempts

\* The requests that have recorded a click on l and may still count it.
Counting(l) == {r \in Requests : link[r] = l /\ pc[r] \in {"counting", "storing"}}

\* Each click that may still be counted is among the events already; a counter
\* read earlier was no greater than it could be now.
CountInv ==
    /\ \A l \in Stored : rows[l].clicks + Cardinality(Counting(l)) <= events[l]
    /\ \A r \in Requests : pc[r] = "storing" =>
           loaded[r].clicks + Cardinality(Counting(link[r])) <= events[link[r]]

IInv == TypeOK /\ SessionInv /\ CodesStayUnique /\ CountInv

-----------------------------------------------------------------------------
(* Types                                                                   *)

\* A row with one field changed is a row.
LEMMA EditedRow ==
    ASSUME NEW w \in Row
    PROVE  /\ \A d \in Dests : [w EXCEPT !.dest = d] \in Row
           /\ \A e \in Expiry : [w EXCEPT !.expires = e] \in Row
           /\ \A n \in Nat : [w EXCEPT !.clicks = n] \in Row
           /\ [w EXCEPT !.active = FALSE] \in Row
           /\ w.code \in Codes /\ w.dest \in Dests /\ w.expires \in Expiry
           /\ w.clicks \in Nat
BY DEF Row

LEMMA InitTypes == Init => TypeOK /\ SessionInv
BY AttemptsAssumption, NoneAssumption
   DEF Init, TypeOK, SessionInv, Stored, Open, Links, Holding

LEMMA ClicksIsNat == \A w \in Row : w.clicks \in Nat /\ w.clicks + 1 \in Nat
BY DEF Row

\* What every step does to the sessions, given what it does to the table.
LEMMA TypesStep == TypeOK /\ SessionInv /\ [Next]_vars => TypeOK' /\ SessionInv'
<1> SUFFICES ASSUME TypeOK, SessionInv, [Next]_vars PROVE TypeOK' /\ SessionInv'
    OBVIOUS
<1> USE AttemptsAssumption, NoneAssumption
    DEF TypeOK, SessionInv, table, request, Open, Answers, Links, Holding, Stored
<1>1. ASSUME NEW r \in Requests, NEW c \in Codes, CheckAlias(r, c) PROVE TypeOK' /\ SessionInv'
    BY <1>1 DEF CheckAlias, Replies, Moves
<1>2. ASSUME NEW r \in Requests, NEW c \in Codes, PickCode(r, c) PROVE TypeOK' /\ SessionInv'
    BY <1>2 DEF PickCode, Replies, Moves
<1>3. ASSUME NEW r \in Requests, Insert(r) PROVE TypeOK' /\ SessionInv'
    <2>1. CASE ~MayInsert(code[r])
        BY <1>3, <2>1 DEF Insert, Replies
    <2>2. CASE MayInsert(code[r])
        <3>1. PICK d \in Dests, e \in {"never", "later"} :
                rows' = [k \in Stored \cup {r} |->
                            IF k = r THEN [code |-> code[r], dest |-> d, active |-> TRUE,
                                           expires |-> e, clicks |-> 0]
                                     ELSE rows[k]]
            BY <1>3, <2>2 DEF Insert
        <3>2. rows'[r] \in Row
            BY <1>3, <3>1 DEF Insert, Row, Expiry
        <3> QED
            BY <1>3, <2>2, <3>1, <3>2 DEF Insert, Replies
    <2> QED
        BY <2>1, <2>2
<1>4. ASSUME NEW r \in Requests, FindNothing(r) PROVE TypeOK' /\ SessionInv'
    BY <1>4 DEF FindNothing, Replies
<1>5. ASSUME NEW r \in Requests, NEW l \in Links, NEW to \in {"editing", "deleting"},
             FindToChange(r, l, to)
      PROVE  TypeOK' /\ SessionInv'
    BY <1>5 DEF FindToChange, Finds, Moves, Visible
<1>6. ASSUME NEW r \in Requests, SaveUpdate(r) PROVE TypeOK' /\ SessionInv'
    <2>1. PICK d \in Dests, extend \in BOOLEAN :
            rows' = [rows EXCEPT ![link[r]].dest = IF d = loaded[r].dest THEN @ ELSE d,
                                 ![link[r]].expires = IF extend THEN "later" ELSE @]
        BY <1>6 DEF SaveUpdate
    <2>2. link[r] \in Stored /\ rows[link[r]] \in Row
        BY <1>6 DEF SaveUpdate
    <2>3. rows'[link[r]] \in Row
        BY <2>1, <2>2 DEF Row, Expiry
    <2> QED
        BY <1>6, <2>1, <2>2, <2>3 DEF SaveUpdate, Replies
<1>7. ASSUME NEW r \in Requests, SaveDeletion(r) PROVE TypeOK' /\ SessionInv'
    <2>1. link[r] \in Stored /\ rows[link[r]] \in Row
        BY <1>7 DEF SaveDeletion
    <2>2. rows'[link[r]] \in Row
        BY <1>7, <2>1, EditedRow DEF SaveDeletion
    <2> QED
        BY <1>7, <2>1, <2>2 DEF SaveDeletion, Replies
<1>8. ASSUME NEW r \in Requests, NEW l \in Links, Follow(r, l) PROVE TypeOK' /\ SessionInv'
    BY <1>8 DEF Follow, Finds, Moves, Replies, Visible
<1>9. ASSUME NEW r \in Requests, RecordClick(r) PROVE TypeOK' /\ SessionInv'
    BY <1>9 DEF RecordClick, Moves
<1>10. ASSUME NEW r \in Requests, LoadCount(r) PROVE TypeOK' /\ SessionInv'
    BY <1>10 DEF LoadCount, Finds, Moves
<1>11. ASSUME NEW r \in Requests, StoreCount(r) PROVE TypeOK' /\ SessionInv'
    <2>1. link[r] \in Stored /\ rows[link[r]] \in Row /\ loaded[r] \in Row
        BY <1>11 DEF StoreCount
    <2>2. loaded[r].clicks + 1 \in Nat
        BY <2>1, ClicksIsNat
    <2>3. rows'[link[r]] \in Row
        BY <1>11, <2>1, <2>2, EditedRow DEF StoreCount
    <2> QED
        BY <1>11, <2>1, <2>3 DEF StoreCount, Moves
<1>12. ASSUME NEW r \in Requests, AnalyticsFails(r) PROVE TypeOK' /\ SessionInv'
    BY <1>12 DEF AnalyticsFails, Moves
<1>13. ASSUME NEW r \in Requests, Send(r) PROVE TypeOK' /\ SessionInv'
    BY <1>13 DEF Send, Finds, Replies
<1>14. ASSUME NEW l \in Links, TimePasses(l) PROVE TypeOK' /\ SessionInv'
    <2>1. rows'[l] \in Row
        BY <1>14, EditedRow DEF TimePasses, Expiry
    <2> QED
        BY <1>14, <2>1 DEF TimePasses
<1>15. CASE UNCHANGED vars
    BY <1>15 DEF vars
<1>16. ASSUME NEW r \in Requests, NEW l \in Links, Show(r, l) PROVE TypeOK' /\ SessionInv'
    BY <1>16 DEF Show, Finds, Replies, Visible
<1>17. ASSUME NEW r \in Requests, ListUrls(r) PROVE TypeOK' /\ SessionInv'
    BY <1>17 DEF ListUrls, Replies
<1> QED
    BY <1>1, <1>2, <1>3, <1>4, <1>5, <1>6, <1>7, <1>8,
       <1>9, <1>10, <1>11, <1>12, <1>13, <1>14, <1>15, <1>16, <1>17
       DEF Next, Step, ShortenUrl, GetUrl, UpdateUrl, DeleteUrl, Redirect, Finished

-----------------------------------------------------------------------------
(* Codes                                                                   *)

\* Only an insert adds a row or writes a code, and the unique index is checked then.
LEMMA CodesStep ==
    TypeOK /\ CodesStayUnique /\ [Next]_vars => CodesStayUnique'
<1> SUFFICES ASSUME TypeOK, CodesStayUnique, [Next]_vars PROVE CodesStayUnique'
    OBVIOUS
<1> USE DEF CodesStayUnique, Stored, table, request
<1>1. ASSUME Stored' = Stored, \A l \in Stored : rows'[l].code = rows[l].code
      PROVE  CodesStayUnique'
    BY <1>1
<1>2. ASSUME NEW r \in Requests, Insert(r) PROVE CodesStayUnique'
    <2>1. CASE ~MayInsert(code[r])
        BY <1>2, <2>1 DEF Insert
    <2>2. CASE MayInsert(code[r])
        BY <1>2, <2>2 DEF Insert, MayInsert, Used
    <2> QED
        BY <2>1, <2>2
<1>3. ASSUME NEW r \in Requests, SaveUpdate(r) \/ SaveDeletion(r) \/ StoreCount(r)
      PROVE  CodesStayUnique'
    <2>1. Stored' = Stored
        BY <1>3 DEF SaveUpdate, SaveDeletion, StoreCount
    <2>2. ASSUME NEW l \in Stored PROVE rows'[l].code = rows[l].code
        <3>1. rows[l] \in Row
            BY DEF TypeOK
        <3>2. CASE SaveUpdate(r)
            BY <2>2, <3>1, <3>2 DEF SaveUpdate, Row
        <3>3. CASE SaveDeletion(r)
            BY <2>2, <3>1, <3>3 DEF SaveDeletion, Row
        <3>4. CASE StoreCount(r)
            BY <2>2, <3>1, <3>4 DEF StoreCount, Row
        <3> QED
            BY <1>3, <3>2, <3>3, <3>4
    <2> QED
        BY <1>1, <2>1, <2>2
<1>4. ASSUME NEW l \in Links, TimePasses(l) PROVE CodesStayUnique'
    <2>1. Stored' = Stored /\ \A k \in Stored : rows'[k].code = rows[k].code
        BY <1>4 DEF TimePasses, TypeOK, Row
    <2> QED
        BY <1>1, <2>1
<1>5. CASE UNCHANGED rows
    BY <1>5
<1> QED
    BY <1>2, <1>3, <1>4, <1>5
       DEF Next, Step, ShortenUrl, GetUrl, ListUrls, UpdateUrl, DeleteUrl, Redirect,
           Finished, vars, CheckAlias, PickCode, FindNothing, Show, FindToChange, Follow,
           RecordClick, LoadCount, AnalyticsFails, Send

-----------------------------------------------------------------------------
(* Clicks                                                                  *)

LEMMA CountingFinite ==
    \A l : /\ IsFiniteSet(Counting(l)) /\ IsFiniteSet(Counting(l)')
           /\ Cardinality(Counting(l)) \in Nat /\ Cardinality(Counting(l)') \in Nat
<1> TAKE l
<1>1. Counting(l) \subseteq Requests /\ Counting(l)' \subseteq Requests
    BY DEF Counting
<1>2. IsFiniteSet(Counting(l)) /\ IsFiniteSet(Counting(l)')
    BY <1>1, FiniteAssumption, FS_Subset
<1> QED
    BY <1>2, FS_CardinalityType

\* The steps that neither record a click nor read or write a counter.
LEMMA QuietStep ==
    ASSUME TypeOK, SessionInv, CountInv, TypeOK', SessionInv',
           events' = events,
           \A l \in Stored' : \/ l \in Stored /\ rows'[l].clicks = rows[l].clicks
                              \/ rows'[l].clicks = 0 /\ Counting(l)' = {},
           \A l \in Links : Counting(l)' \subseteq Counting(l),
           \A r \in Requests : pc'[r] = "storing" =>
               pc[r] = "storing" /\ loaded'[r] = loaded[r] /\ link'[r] = link[r]
    PROVE  CountInv'
<1>1. \A l \in Links : Cardinality(Counting(l)') <= Cardinality(Counting(l))
    BY CountingFinite, FS_Subset
<1>2. ASSUME NEW l \in Stored'
      PROVE  rows'[l].clicks + Cardinality(Counting(l)') <= events'[l]
    <2>1. l \in Links /\ rows'[l].clicks \in Nat /\ events[l] \in Nat
        BY <1>2, EditedRow DEF TypeOK
    <2>2. CASE l \in Stored /\ rows'[l].clicks = rows[l].clicks
        BY <1>1, <2>1, <2>2, CountingFinite DEF CountInv
    <2>3. CASE rows'[l].clicks = 0 /\ Counting(l)' = {}
        BY <2>1, <2>3, FS_EmptySet
    <2> QED
        BY <1>2, <2>2, <2>3
<1>3. ASSUME NEW r \in Requests, pc'[r] = "storing"
      PROVE  loaded'[r].clicks + Cardinality(Counting(link[r])') <= events[link[r]]
    <2>1. link[r] \in Links /\ loaded[r] \in Row
        BY <1>3 DEF SessionInv, TypeOK, Holding
    <2>2. loaded[r].clicks \in Nat /\ events[link[r]] \in Nat
        BY <2>1, EditedRow DEF TypeOK
    <2>3. loaded[r].clicks + Cardinality(Counting(link[r])) <= events[link[r]]
        BY <1>3 DEF CountInv
    <2> QED
        BY <1>1, <1>3, <2>1, <2>2, <2>3, CountingFinite
<1>4. \A r \in Requests : pc'[r] = "storing" =>
          loaded'[r].clicks + Cardinality(Counting(link[r])') <= events[link[r]]
    BY <1>3
<1> QED
    BY <1>2, <1>4 DEF CountInv

\* A click enters Counting with its event, and leaves it with its increment.
LEMMA CountStep ==
    TypeOK /\ SessionInv /\ CountInv /\ TypeOK' /\ SessionInv' /\ [Next]_vars => CountInv'
<1> SUFFICES ASSUME TypeOK, SessionInv, CountInv, TypeOK', SessionInv', [Next]_vars
             PROVE  CountInv'
    OBVIOUS
<1> USE DEF Counting, Stored, Links, table, request
<1>1. ASSUME NEW r \in Requests, NEW c \in Codes, CheckAlias(r, c) PROVE CountInv'
    BY <1>1, QuietStep DEF CheckAlias, Replies, Moves, TypeOK
<1>2. ASSUME NEW r \in Requests, NEW c \in Codes, PickCode(r, c) PROVE CountInv'
    BY <1>2, QuietStep DEF PickCode, Replies, Moves, TypeOK
<1>3. ASSUME NEW r \in Requests, Insert(r) PROVE CountInv'
    <2>1. CASE ~MayInsert(code[r])
        BY <1>3, <2>1, QuietStep DEF Insert, Replies, TypeOK
    <2>2. CASE MayInsert(code[r])
        <3>1. r \notin Stored /\ r # None
            BY <1>3, NoneAssumption DEF Insert, SessionInv
        <3>2. Counting(r)' = {}
            BY <1>3, <2>2, <3>1 DEF Insert, Replies, SessionInv, TypeOK
        <3>3. \A l \in Links : Counting(l)' \subseteq Counting(l)
            BY <1>3, <2>2, <3>1 DEF Insert, Replies, SessionInv, TypeOK
        <3>4. \A l \in Stored' : \/ l \in Stored /\ rows'[l].clicks = rows[l].clicks
                                 \/ rows'[l].clicks = 0 /\ Counting(l)' = {}
            <4> HIDE DEF Counting
            <4> QED
                BY <1>3, <2>2, <3>1, <3>2 DEF Insert
        <3>5. \A q \in Requests : pc'[q] = "storing" =>
                 pc[q] = "storing" /\ loaded'[q] = loaded[q] /\ link'[q] = link[q]
            BY <1>3, <2>2 DEF Insert, Replies, TypeOK
        <3> QED
            BY <1>3, <3>3, <3>4, <3>5, QuietStep DEF Insert
    <2> QED
        BY <2>1, <2>2
<1>4. ASSUME NEW r \in Requests, FindNothing(r) PROVE CountInv'
    BY <1>4, QuietStep DEF FindNothing, Replies, TypeOK
<1>5. ASSUME NEW r \in Requests, NEW l \in Links, NEW to \in {"editing", "deleting"},
             FindToChange(r, l, to)
      PROVE  CountInv'
    BY <1>5, QuietStep DEF FindToChange, Finds, Moves, TypeOK
<1>6. ASSUME NEW r \in Requests, SaveUpdate(r) PROVE CountInv'
    <2>1. ASSUME NEW l \in Stored PROVE l \in Stored' /\ rows'[l].clicks = rows[l].clicks
        BY <1>6, <2>1 DEF SaveUpdate, TypeOK, Row
    <2> QED
        BY <1>6, <2>1, QuietStep DEF SaveUpdate, Replies, TypeOK
<1>7. ASSUME NEW r \in Requests, SaveDeletion(r) PROVE CountInv'
    <2>1. ASSUME NEW l \in Stored PROVE l \in Stored' /\ rows'[l].clicks = rows[l].clicks
        BY <1>7, <2>1 DEF SaveDeletion, TypeOK, Row
    <2> QED
        BY <1>7, <2>1, QuietStep DEF SaveDeletion, Replies, TypeOK
<1>8. ASSUME NEW r \in Requests, NEW l \in Links, Follow(r, l) PROVE CountInv'
    BY <1>8, QuietStep DEF Follow, Finds, Moves, Replies, TypeOK
<1>9. ASSUME NEW r \in Requests, RecordClick(r) PROVE CountInv'
    <2>0. PICK k \in Links : k = link[r] /\ k \in Stored
        BY <1>9 DEF RecordClick, SessionInv, Holding, TypeOK
    <2>1. /\ k \in Stored /\ events[k] \in Nat
          /\ events' = [events EXCEPT ![k] = events[k] + 1]
          /\ pc[r] = "recording" /\ pc' = [pc EXCEPT ![r] = "counting"]
          /\ rows' = rows /\ link' = link /\ loaded' = loaded
        BY <1>9, <2>0 DEF RecordClick, Moves, SessionInv, Holding, TypeOK
    <2>2. Counting(k)' = Counting(k) \cup {r} /\ r \notin Counting(k)
        BY <2>0, <2>1 DEF TypeOK
    <2>3. Cardinality(Counting(k)') = Cardinality(Counting(k)) + 1
        <3> HIDE DEF Counting
        <3> QED
            BY <2>2, CountingFinite, FS_AddElement
    <2>4. \A l \in Links : l # k => Counting(l)' = Counting(l)
        BY <2>0, <2>1 DEF TypeOK
    <2> HIDE DEF Counting
    <2>5. \A l \in Links : /\ events'[l] = events[l] + (IF l = k THEN 1 ELSE 0)
                           /\ events[l] \in Nat
                           /\ Cardinality(Counting(l)') =
                                Cardinality(Counting(l)) + (IF l = k THEN 1 ELSE 0)
        BY <2>1, <2>3, <2>4, CountingFinite DEF TypeOK
    <2>6. ASSUME NEW l \in Stored PROVE rows[l].clicks + Cardinality(Counting(l)') <= events'[l]
        <3>1. l \in Links /\ rows[l].clicks \in Nat
            BY ClicksIsNat DEF TypeOK
        <3> QED
            BY <2>5, <3>1, CountingFinite DEF CountInv
    <2>7. ASSUME NEW q \in Requests, pc'[q] = "storing"
          PROVE  loaded[q].clicks + Cardinality(Counting(link[q])') <= events'[link[q]]
        <3>1. pc[q] = "storing"
            BY <2>1, <2>7 DEF TypeOK
        <3>2. link[q] \in Links /\ loaded[q].clicks \in Nat
            BY <3>1, ClicksIsNat DEF SessionInv, Holding, TypeOK
        <3>3. PICK l \in Links : l = link[q] /\ l = link'[q]
            BY <2>1, <3>2
        <3>4. loaded[q].clicks + Cardinality(Counting(l)) <= events[l]
            BY <3>1, <3>3 DEF CountInv
        <3>5. loaded[q].clicks + Cardinality(Counting(l)') <= events'[l]
            BY <2>5, <3>2, <3>4, CountingFinite
        <3> QED
            BY <3>3, <3>5
    <2>8. \A q \in Requests : pc'[q] = "storing" =>
              loaded[q].clicks + Cardinality(Counting(link[q])') <= events'[link[q]]
        BY <2>7
    <2> QED
        BY <2>1, <2>6, <2>8 DEF CountInv
<1>10. ASSUME NEW r \in Requests, LoadCount(r) PROVE CountInv'
    <2>0. PICK k \in Links : k = link[r] /\ k \in Stored
        BY <1>10 DEF LoadCount, SessionInv, Holding, TypeOK
    <2>1. /\ k \in Stored /\ pc[r] = "counting"
          /\ pc' = [pc EXCEPT ![r] = "storing"]
          /\ loaded' = [loaded EXCEPT ![r] = rows[k]]
          /\ link' = link /\ rows' = rows /\ events' = events
        BY <1>10, <2>0 DEF LoadCount, Finds, Moves, SessionInv, Holding, TypeOK
    <2>2. \A l : Counting(l)' = Counting(l)
        BY <2>0, <2>1 DEF TypeOK
    <2> HIDE DEF Counting
    <2>3. \A l \in Stored : rows[l].clicks + Cardinality(Counting(l)') <= events[l]
        BY <2>2 DEF CountInv
    <2>4. ASSUME NEW q \in Requests, pc'[q] = "storing"
          PROVE  loaded'[q].clicks + Cardinality(Counting(link[q])') <= events[link[q]]
        <3>1. CASE q = r
            BY <2>0, <2>1, <2>3, <3>1 DEF TypeOK
        <3>2. CASE q # r
            BY <2>1, <2>2, <2>4, <3>2 DEF CountInv, TypeOK
        <3> QED
            BY <3>1, <3>2
    <2>5. \A q \in Requests : pc'[q] = "storing" =>
              loaded'[q].clicks + Cardinality(Counting(link[q])') <= events[link[q]]
        BY <2>4
    <2> QED
        BY <2>1, <2>3, <2>5 DEF CountInv
<1>11. ASSUME NEW r \in Requests, StoreCount(r) PROVE CountInv'
    <2>0. PICK k \in Links : k = link[r] /\ k \in Stored
        BY <1>11 DEF StoreCount, SessionInv, Holding, TypeOK
    <2>1. /\ k \in Stored /\ events[k] \in Nat /\ pc[r] = "storing"
          /\ rows' = [rows EXCEPT ![k].clicks = loaded[r].clicks + 1]
          /\ pc' = [pc EXCEPT ![r] = "sending"]
          /\ events' = events /\ link' = link /\ loaded' = loaded
        BY <1>11, <2>0 DEF StoreCount, Moves, SessionInv, Holding, TypeOK
    <2>2. Counting(k)' = Counting(k) \ {r} /\ r \in Counting(k)
        BY <2>0, <2>1 DEF TypeOK
    <2>3. Cardinality(Counting(k)') = Cardinality(Counting(k)) - 1
        <3> HIDE DEF Counting
        <3> QED
            BY <2>2, CountingFinite, FS_RemoveElement
    <2>4. \A l \in Links : l # k => Counting(l)' = Counting(l)
        BY <2>0, <2>1 DEF TypeOK
    <2>5. loaded[r] \in Row /\ rows[k] \in Row
        BY <2>1 DEF SessionInv, Holding, TypeOK
    <2>6. rows'[k].clicks = loaded[r].clicks + 1 /\ \A l \in Stored : l # k => rows'[l] = rows[l]
        BY <2>1, <2>5 DEF Row
    <2> HIDE DEF Counting
    <2>7. \A l \in Links : Cardinality(Counting(l)') <= Cardinality(Counting(l))
        <3>1. ASSUME NEW l \in Links PROVE Cardinality(Counting(l)') <= Cardinality(Counting(l))
            <4>1. CASE l = k
                BY <2>3, <4>1, CountingFinite
            <4>2. CASE l # k
                BY <2>4, <4>2, CountingFinite
            <4> QED
                BY <4>1, <4>2
        <3> QED
            BY <3>1
    <2>8. ASSUME NEW l \in Stored PROVE rows'[l].clicks + Cardinality(Counting(l)') <= events[l]
        <3>1. loaded[r].clicks \in Nat
            BY <2>5, ClicksIsNat
        <3>2. CASE l = k
            <4>1. loaded[r].clicks + Cardinality(Counting(k)) <= events[k]
                BY <2>0, <2>1 DEF CountInv
            <4> QED
                BY <2>1, <2>3, <2>6, <3>1, <3>2, <4>1, CountingFinite
        <3>3. CASE l # k
            BY <2>4, <2>6, <3>3 DEF CountInv, TypeOK
        <3> QED
            BY <3>2, <3>3
    <2>9. ASSUME NEW q \in Requests, pc'[q] = "storing"
          PROVE  loaded[q].clicks + Cardinality(Counting(link[q])') <= events[link[q]]
        <3>1. pc[q] = "storing"
            BY <2>1, <2>9 DEF TypeOK
        <3>2. link[q] \in Links /\ loaded[q].clicks \in Nat /\ events[link[q]] \in Nat
            BY <3>1, ClicksIsNat DEF SessionInv, Holding, TypeOK
        <3>3. PICK l \in Links : l = link[q] /\ l = link'[q]
            BY <2>1, <3>2
        <3>4. loaded[q].clicks + Cardinality(Counting(l)) <= events[l]
            BY <3>1, <3>3 DEF CountInv
        <3>5. loaded[q].clicks + Cardinality(Counting(l)') <= events[l]
            BY <2>7, <3>2, <3>3, <3>4, CountingFinite
        <3> QED
            BY <3>3, <3>5
    <2>10. Stored' = Stored
        BY <2>1
    <2>11. \A q \in Requests : pc'[q] = "storing" =>
              loaded[q].clicks + Cardinality(Counting(link[q])') <= events[link[q]]
        BY <2>9
    <2> QED
        BY <2>1, <2>8, <2>10, <2>11 DEF CountInv
<1>12. ASSUME NEW r \in Requests, AnalyticsFails(r) PROVE CountInv'
    BY <1>12, QuietStep DEF AnalyticsFails, Moves, TypeOK
<1>13. ASSUME NEW r \in Requests, Send(r) PROVE CountInv'
    BY <1>13, QuietStep DEF Send, Finds, Replies, TypeOK
<1>14. ASSUME NEW l \in Links, TimePasses(l) PROVE CountInv'
    <2>1. ASSUME NEW k \in Stored PROVE k \in Stored' /\ rows'[k].clicks = rows[k].clicks
        BY <1>14, <2>1 DEF TimePasses, TypeOK, Row
    <2> QED
        BY <1>14, <2>1, QuietStep DEF TimePasses
<1>15. CASE UNCHANGED vars
    BY <1>15, QuietStep DEF vars
<1>16. ASSUME NEW r \in Requests, NEW l \in Links, Show(r, l) PROVE CountInv'
    BY <1>16, QuietStep DEF Show, Finds, Replies, TypeOK
<1>17. ASSUME NEW r \in Requests, ListUrls(r) PROVE CountInv'
    BY <1>17, QuietStep DEF ListUrls, Replies, TypeOK
<1> QED
    BY <1>1, <1>2, <1>3, <1>4, <1>5, <1>6, <1>7, <1>8,
       <1>9, <1>10, <1>11, <1>12, <1>13, <1>14, <1>15, <1>16, <1>17
       DEF Next, Step, ShortenUrl, GetUrl, UpdateUrl, DeleteUrl, Redirect, Finished

-----------------------------------------------------------------------------
(* What a step may do to a stored link                                     *)

\* The update of request r to link l is this step.
UpdatesLink(r, l) == pc[r] = "editing" /\ link[r] = l /\ answer'[r] = "updated"

\* The link is kept, is not brought back, and leads elsewhere only by an update.
KeepsLink(l) ==
    /\ l \in Stored'
    /\ ~rows[l].active => ~rows'[l].active
    /\ rows'[l].dest # rows[l].dest => \E r \in Requests : UpdatesLink(r, l)

LEMMA EditKeepsFields ==
    ASSUME NEW w \in Row
    PROVE  /\ \A e \in Expiry : [w EXCEPT !.expires = e].active = w.active
           /\ \A e \in Expiry : [w EXCEPT !.expires = e].dest = w.dest
           /\ \A n \in Nat : [w EXCEPT !.clicks = n].active = w.active
           /\ \A n \in Nat : [w EXCEPT !.clicks = n].dest = w.dest
           /\ [w EXCEPT !.active = FALSE].active = FALSE
           /\ [w EXCEPT !.active = FALSE].dest = w.dest
BY DEF Row

LEMMA LinkStep ==
    ASSUME TypeOK, SessionInv, Next, NEW l \in Stored
    PROVE  KeepsLink(l)
<1> USE DEF TypeOK, SessionInv, Holding, Stored, KeepsLink
<1>0. rows[l] \in Row
    OBVIOUS
<1>1. ASSUME NEW r \in Requests, Insert(r) PROVE KeepsLink(l)
    <2>1. l # r
        BY <1>1 DEF Insert
    <2> QED
        BY <1>1, <2>1 DEF Insert
<1>2. ASSUME NEW r \in Requests, SaveUpdate(r) PROVE KeepsLink(l)
    <2>1. PICK d \in Dests, extend \in BOOLEAN :
            rows' = [rows EXCEPT ![link[r]].dest = IF d = loaded[r].dest THEN @ ELSE d,
                                 ![link[r]].expires = IF extend THEN "later" ELSE @]
        BY <1>2 DEF SaveUpdate
    <2>2. rows'[l].active = rows[l].active /\ l \in Stored'
        BY <1>0, <2>1 DEF Row
    <2>3. CASE link[r] = l
        BY <1>2, <2>2, <2>3 DEF SaveUpdate, Replies, UpdatesLink
    <2>4. CASE link[r] # l
        BY <2>1, <2>2, <2>4
    <2> QED
        BY <2>3, <2>4
<1>3. ASSUME NEW r \in Requests, SaveDeletion(r) PROVE KeepsLink(l)
    BY <1>0, <1>3, EditKeepsFields DEF SaveDeletion
<1>4. ASSUME NEW r \in Requests, StoreCount(r) PROVE KeepsLink(l)
    <2>1. loaded[r].clicks + 1 \in Nat
        BY <1>4, ClicksIsNat DEF StoreCount
    <2> QED
        BY <1>0, <1>4, <2>1, EditKeepsFields DEF StoreCount
<1>5. ASSUME NEW k \in Links, TimePasses(k) PROVE KeepsLink(l)
    BY <1>0, <1>5, EditKeepsFields DEF TimePasses, Expiry
<1>6. CASE UNCHANGED rows
    BY <1>6
<1> QED
    BY <1>1, <1>2, <1>3, <1>4, <1>5, <1>6
       DEF Next, Step, ShortenUrl, GetUrl, ListUrls, UpdateUrl, DeleteUrl, Redirect, Finished,
           CheckAlias, PickCode, FindNothing, Show, FindToChange, Follow, RecordClick,
           LoadCount, AnalyticsFails, Send, table, vars

-----------------------------------------------------------------------------
(* The specification                                                       *)

LEMMA Inductive == Spec => []IInv
<1>1. Init => IInv
    BY InitTypes DEF Init, IInv, CodesStayUnique, CountInv, Stored
<1>2. IInv /\ [Next]_vars => IInv'
    BY TypesStep, CodesStep, CountStep DEF IInv
<1> QED
    BY <1>1, <1>2, PTL DEF Spec

\* TypeOK, for any number of requests, codes and destinations.
THEOREM TypesHold == Spec => []TypeOK
BY Inductive, PTL DEF IInv

\* The unique index is enough for create_short_url: whatever lookups of other
\* requests come between the lookup of a code and its insert, and whatever is
\* deleted, no two links ever share a code.
THEOREM CodesAreUnique == Spec => []CodesStayUnique
BY Inductive, PTL DEF IInv

\* A counter never exceeds the click events of its link: at every moment the
\* events also cover every click that has been recorded and is still to be counted.
THEOREM ClicksNeverRunAhead == Spec => []ClicksAreRecorded
<1>1. IInv => ClicksAreRecorded
    <2> SUFFICES ASSUME IInv, NEW l \in Stored PROVE rows[l].clicks <= events[l]
        BY DEF ClicksAreRecorded
    <2>1. rows[l].clicks \in Nat /\ events[l] \in Nat
        BY ClicksIsNat DEF IInv, TypeOK
    <2> QED
        BY <2>1, CountingFinite DEF IInv, CountInv
<1> QED
    BY <1>1, Inductive, PTL

\* No step brings a deleted link back: not an update or a click counted whose
\* session loaded the link before the deletion.
THEOREM DeletionIsFinal == Spec => DeletedStaysDeleted
<1>1. IInv /\ [Next]_vars
          => [\A l \in Stored : ~rows[l].active => ~rows'[l].active]_rows
    BY LinkStep DEF IInv, KeepsLink, vars, table
<1> QED
    BY <1>1, Inductive, PTL DEF Spec, DeletedStaysDeleted

\* Where a link leads only an update of that link changes, and never a click whose
\* session loaded the link before the update.
THEOREM OnlyUpdatesMoveLinks == Spec => OnlyUpdatesRedirect
<1>1. IInv /\ [Next]_vars
          => [\A l \in Stored : rows'[l].dest # rows[l].dest =>
                \E r \in Requests :
                   pc[r] = "editing" /\ link[r] = l /\ answer'[r] = "updated"]_rows
    BY LinkStep DEF IInv, KeepsLink, UpdatesLink, vars, table
<1> QED
    BY <1>1, Inductive, PTL DEF Spec, OnlyUpdatesRedirect

=============================================================================
