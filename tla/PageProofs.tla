----------------------------- MODULE PageProofs -----------------------------
(***************************************************************************)
(* Proofs about the platform's logs view, for any rows, filters, page      *)
(* sizes and calls: once every answer is in it shows only what its filter  *)
(* matches, and its list has no hole.                                      *)
(***************************************************************************)
EXTENDS MCLogs, Naturals, Sequences, FiniteSets, FiniteSetTheorems, TLAPS

-----------------------------------------------------------------------------
(* The logs view: its types.                                               *)

LogRow == [kind : Kinds, ts : Nat]
LogState ==
    [filter : Filters, entries : SUBSET Nat, olderCursor : Nat, loadingMore : BOOLEAN,
     tailing : BOOLEAN, timer : BOOLEAN, stale : BOOLEAN]
LogCall ==
    [op : {"load", "poll", "more"}, filter : Filters, before : Nat, latest : BOOLEAN]

LogTypes == logRows \in Seq(LogRow) /\ logView \in LogState /\ logQueue \in Seq(LogCall)

\* The operators of the finite sets are the same in the instance.
LEMMA SameSets ==
    /\ \A S : Logs!IsFiniteSet(S) = IsFiniteSet(S)
    /\ \A S : Logs!Cardinality(S) = Cardinality(S)
  <1>1. \A S : Logs!IsFiniteSet(S) = IsFiniteSet(S)
    BY Zenon DEF Logs!IsFiniteSet, IsFiniteSet
  <1>2. \A S : Logs!Cardinality(S) = Cardinality(S)
    BY Zenon DEF Logs!Cardinality, Cardinality, Logs!IsFiniteSet, IsFiniteSet
  <1> QED
    BY <1>1, <1>2, Zenon

\* A set of numbers that is not empty has a least one.
LEMMA LeastIs ==
    ASSUME NEW S \in SUBSET Nat, S # {}
    PROVE  Logs!Min(S) \in S /\ \A y \in S : Logs!Min(S) <= y
  <1> DEFINE R == {ss \in Nat \X Nat : ss[1] < ss[2]}
  <1>1. IsWellFoundedOn(R, Nat)
    BY NatLessThanWellFounded, Zenon DEF OpToRel
  <1>2. PICK x \in S : \A y \in S : ~ (<<y, x>> \in R)
    <2> HIDE DEF R
    <2> QED
      BY <1>1, WFMin, Zenon
  <1>3. ASSUME NEW y \in S PROVE x <= y
    <2>1. <<y, x>> \in Nat \X Nat /\ <<y, x>>[1] = y /\ <<y, x>>[2] = x
      OBVIOUS
    <2>2. ~ (y < x)
      BY <1>2, <2>1, Zenon
    <2> QED
      BY <2>2
  <1> QED
    BY <1>3, Zenon DEF Logs!Min

\* A set of numbers with a bound has a greatest one.
LEMMA GreatestIs ==
    ASSUME NEW S \in SUBSET Nat, S # {}, NEW n \in Nat, \A y \in S : y <= n
    PROVE  Logs!Max(S) \in S /\ \A y \in S : y <= Logs!Max(S)
  <1> DEFINE B == {b \in Nat : \A y \in S : y <= b}
             m == Logs!Min(B)
  <1>1. m \in B /\ \A b \in B : m <= b
    BY LeastIs, Zenon
  <1>2. m \in S
    <2>1. CASE m = 0
      <3>1. PICK y \in S : TRUE
        OBVIOUS
      <3>2. y \in Nat /\ y <= m /\ m \in Nat
        BY <1>1, Zenon
      <3>3. y = m
        BY <2>1, <3>2
      <3> QED
        BY <3>3
    <2>2. CASE m > 0 /\ m \notin S
      <3>1. m \in Nat /\ m - 1 \in Nat /\ (\A y \in S : y \in Nat /\ y <= m /\ y # m)
        BY <1>1, <2>2
      <3>2. \A y \in S : y <= m - 1
        BY <3>1
      <3>3. m - 1 \in B
        BY <3>1, <3>2, Zenon
      <3>4. m <= m - 1
        BY <1>1, <3>3
      <3> QED
        BY <3>1, <3>4
    <2> QED
      BY <1>1, <2>1, <2>2
  <1>3. \A y \in S : y <= m /\ y \in Nat
    BY <1>1, Zenon
  <1> HIDE DEF m, B
  <1> QED
    BY <1>2, <1>3, Zenon DEF Logs!Max

-----------------------------------------------------------------------------
(* What the log service answers.                                           *)

\* A page is a part of the rows that match.
LEMMA PageMatches ==
    ASSUME LogTypes, NEW filter, NEW before \in Nat, NEW limit \in Nat \ {0},
           NEW page \in Logs!Query(filter, before, limit)
    PROVE  /\ page \subseteq Logs!Matching(filter, before)
           /\ Logs!Matching(filter, before) \subseteq Logs!Matching(filter, 0)
           /\ Logs!Matching(filter, 0) \subseteq 1 .. Len(logRows)
           /\ IsFiniteSet(Logs!Matching(filter, before))
           /\ Logs!NextBefore(page, limit) \in Nat
  <1>1. /\ page \subseteq Logs!Matching(filter, before)
        /\ Logs!Matching(filter, before) \subseteq Logs!Matching(filter, 0)
    BY Zenon DEF Logs!Query, Logs!kSubset, Logs!Matching, Logs!None
  <1>2. Logs!Matching(filter, 0) \subseteq 1 .. Len(logRows) /\ Len(logRows) \in Nat
    BY DEF LogTypes, Logs!Matching
  <1>3. IsFiniteSet(Logs!Matching(filter, before))
    <2>1. IsFiniteSet(1 .. Len(logRows))
      BY <1>2, FS_Interval
    <2> QED
      BY <1>1, <1>2, <2>1, FS_Subset, Zenon
  <1>4. Logs!NextBefore(page, limit) \in Nat
    <2>1. CASE Logs!Cardinality(page) = limit
      <3>1. page # {}
        BY <2>1, SameSets, FS_EmptySet
      <3>2. {logRows[id].ts : id \in page} \in SUBSET Nat
        <4>1. \A id \in 1 .. Len(logRows) : logRows[id].ts \in Nat
          <5>1. \A id \in 1 .. Len(logRows) : logRows[id] \in LogRow
            BY DEF LogTypes
          <5> QED
            BY <5>1, Zenon DEF LogRow
        <4> QED
          BY <1>1, <1>2, <4>1, Zenon
      <3> QED
        BY <2>1, <3>1, <3>2, LeastIs, SMTT(30) DEF Logs!NextBefore, Logs!Oldest
    <2>2. CASE Logs!Cardinality(page) # limit
      BY <2>2, Zenon DEF Logs!NextBefore, Logs!None
    <2> QED
      BY <2>1, <2>2, Zenon
  <1> QED
    BY <1>1, <1>2, <1>3, <1>4, Zenon

\* When no two rows have the same timestamp, a page has every row that matches from
\* the cursor of the next one on; and it has any newest part of the rows that is not
\* larger than the limit.
LEMMA PageHasNewest ==
    ASSUME LogTypes, \A id \in 1 .. Len(logRows) : logRows[id].ts = id,
           NEW filter, NEW before \in Nat, NEW limit \in Nat \ {0},
           NEW page \in Logs!Query(filter, before, limit)
    PROVE  /\ \A id \in Logs!Matching(filter, before) \ page :
                  /\ Logs!NextBefore(page, limit) \in page
                  /\ id < Logs!NextBefore(page, limit)
           /\ \A U \in SUBSET Logs!Matching(filter, before) :
                  /\ \A u \in U, id \in Logs!Matching(filter, before) \ U : id < u
                  /\ Cardinality(U) <= limit
                  => U \subseteq page
  <1> DEFINE all == Logs!Matching(filter, before)
             next == Logs!NextBefore(page, limit)
  <1>1. /\ page \subseteq all /\ all \subseteq 1 .. Len(logRows) /\ IsFiniteSet(all)
        /\ Len(logRows) \in Nat
    BY PageMatches DEF LogTypes
  <1>2. IsFiniteSet(page) /\ Cardinality(page) \in Nat /\ Cardinality(all) \in Nat
    BY <1>1, FS_Subset, FS_CardinalityType
  <1>3. /\ Cardinality(page) = Logs!Min({limit, Cardinality(all)})
        /\ \A id \in page, other \in all \ page : logRows[other].ts <= logRows[id].ts
    BY SameSets, Zenon DEF Logs!Query, Logs!kSubset
  <1>4. /\ Cardinality(page) = limit \/ Cardinality(page) = Cardinality(all)
        /\ Cardinality(page) <= limit
    <2>1. {limit, Cardinality(all)} \in SUBSET Nat /\ {limit, Cardinality(all)} # {}
      BY <1>2
    <2> HIDE DEF all
    <2> QED
      BY <1>2, <1>3, <2>1, LeastIs, ZenonT(30)
  <1>5. \A id \in page, other \in all \ page : other < id
    <2> SUFFICES ASSUME NEW id \in page, NEW other \in all \ page PROVE other < id
      OBVIOUS
    <2>1. logRows[other].ts = other /\ logRows[id].ts = id /\ other \in Nat /\ id \in Nat /\ other # id
      BY <1>1
    <2> QED
      BY <1>3, <2>1
  <1> HIDE DEF all
  <1>6. ASSUME NEW other \in all \ page PROVE next \in page /\ other < next
    <2>1. Cardinality(page) = limit
      BY <1>1, <1>2, <1>4, FS_Subset, Zenon
    <2>2. page # {}
      BY <2>1, FS_EmptySet, Zenon
    <2>3. {logRows[id].ts : id \in page} = page
      BY <1>1
    <2>4. next = Logs!Min(page)
      <3>1. Logs!Cardinality(page) = limit
        BY <2>1, SameSets, Zenon
      <3> QED
        BY <2>3, <3>1, Zenon DEF Logs!NextBefore, Logs!Oldest
    <2>5. page \in SUBSET Nat
      <3>1. \A id \in 1 .. Len(logRows) : id \in Nat
        BY <1>1
      <3> QED
        BY <1>1, <3>1, Zenon
    <2>6. next \in page
      BY <2>2, <2>4, <2>5, LeastIs
    <2> HIDE DEF next
    <2> QED
      BY <1>5, <2>6, Zenon
  <1>7. ASSUME NEW U \in SUBSET all, \A u \in U, id \in all \ U : id < u, Cardinality(U) <= limit,
               NEW x \in U, x \notin page
        PROVE  FALSE
    <2>1. page \subseteq U \ {x}
      <3> SUFFICES ASSUME NEW y \in page, y \notin U \ {x} PROVE FALSE
        OBVIOUS
      <3>1. y < x /\ x < y /\ x \in Nat /\ y \in Nat
        BY <1>1, <1>5, <1>7
      <3> QED
        BY <3>1
    <2>2. IsFiniteSet(U) /\ Cardinality(U) \in Nat
      BY <1>1, FS_Subset, FS_CardinalityType, Zenon
    <2>3. IsFiniteSet(U \ {x}) /\ Cardinality(U \ {x}) = Cardinality(U) - 1
      BY <1>7, <2>2, FS_RemoveElement, Zenon
    <2>4. Cardinality(page) <= Cardinality(U) - 1
      BY <2>1, <2>3, FS_Subset
    <2>5. Cardinality(page) = Cardinality(all)
      BY <1>2, <1>4, <1>7, <2>2, <2>4
    <2> QED
      BY <1>1, <1>7, <2>5, FS_Subset, Zenon
  <1> QED
    BY <1>6, <1>7, Zenon DEF all

-----------------------------------------------------------------------------
(* The list is the filter's.                                               *)

\* A load is queued behind the i-th call; behind the 0-th when there is one at all.
LoadAfter(i) == \E j \in 1 .. Len(logQueue) : j > i /\ logQueue[j].op = "load"

\* Nothing that will replace the list is on its way.
Settled == ~logView.timer /\ ~LoadAfter(0)

\* A call that no load follows asks for the filter that is set, and a load among
\* them counts; without one the rows that are shown match.
MatchInv ==
    /\ LogTypes
    /\ ~logView.timer => \A i \in 1 .. Len(logQueue) :
         ~LoadAfter(i) => /\ logQueue[i].filter = logView.filter
                          /\ logQueue[i].op = "load" => logQueue[i].latest
    /\ Settled /\ ~logView.stale => logView.entries \subseteq Logs!Matching(logView.filter, 0)

\* The page sends a call that is not a load: it stands last, with the filter set.
LEMMA CallSent ==
    ASSUME MatchInv, NEW op \in {"poll", "more"}, NEW before \in Nat,
           logQueue' = Append(logQueue, Logs!Call(op, before)), logView'.filter = logView.filter,
           logView'.timer = logView.timer, logView'.stale = logView.stale,
           logView'.entries = logView.entries, logRows' = logRows, logView' \in LogState
    PROVE  MatchInv'
  <1> DEFINE n == Len(logQueue)
             c == Logs!Call(op, before)
  <1>0. logQueue \in Seq(LogCall) /\ n \in Nat /\ logRows \in Seq(LogRow)
    BY DEF MatchInv, LogTypes
  <1>1. c \in LogCall /\ c.op = op /\ c.filter = logView.filter
    <2>1. logView.filter \in Filters
      BY Zenon DEF MatchInv, LogTypes, LogState
    <2> QED
      BY <2>1, Zenon DEF Logs!Call, LogCall
  <1> HIDE DEF c
  <1>2. /\ logQueue' \in Seq(LogCall) /\ Len(logQueue') = n + 1 /\ logQueue'[n + 1] = c
        /\ \A i \in 1 .. n : logQueue'[i] = logQueue[i]
    BY <1>0, <1>1 DEF c
  <1>3. \A i \in 0 .. n : LoadAfter(i)' <=> LoadAfter(i)
    BY <1>0, <1>1, <1>2 DEF LoadAfter
  <1>4. LogTypes'
    BY <1>0, <1>2, Zenon DEF LogTypes
  <1>5. ASSUME ~logView'.timer, NEW i \in 1 .. Len(logQueue'), ~LoadAfter(i)'
        PROVE  /\ logQueue'[i].filter = logView'.filter
               /\ logQueue'[i].op = "load" => logQueue'[i].latest
    <2>1. CASE i = n + 1
      BY <1>1, <1>2, <2>1, Zenon
    <2>2. CASE i \in 1 .. n
      BY <1>0, <1>2, <1>3, <1>5, <2>2, SMTT(30) DEF MatchInv
    <2> QED
      BY <1>0, <1>2, <2>1, <2>2
  <1>6. Settled' <=> Settled
    BY <1>0, <1>3 DEF Settled
  <1>7. Logs!Matching(logView.filter, 0)' = Logs!Matching(logView.filter, 0)
    BY Zenon DEF Logs!Matching
  <1> QED
    BY <1>4, <1>5, <1>6, <1>7, Zenon DEF MatchInv

\* The first call is answered.  When no load is left and no filter waits, it had asked
\* for the filter that is set.
LEMMA CallAnswered ==
    ASSUME MatchInv, logQueue # <<>>, logQueue' = Tail(logQueue),
           logView'.filter = logView.filter, logView'.timer = logView.timer
    PROVE  /\ Head(logQueue) \in LogCall /\ Head(logQueue) = logQueue[1]
           /\ logQueue' \in Seq(LogCall) /\ Len(logQueue') = Len(logQueue) - 1
           /\ \A i \in 1 .. Len(logQueue') : i + 1 \in 1 .. Len(logQueue) /\ logQueue'[i] = logQueue[i + 1]
           /\ \A i \in 0 .. Len(logQueue') : LoadAfter(i)' <=> LoadAfter(i + 1)
           /\ Settled' => /\ Head(logQueue).filter = logView.filter
                          /\ Head(logQueue).op = "load" => Head(logQueue).latest
                          /\ Head(logQueue).op # "load" => Settled
  <1>0. logQueue \in Seq(LogCall) /\ Len(logQueue) \in Nat \ {0}
    BY DEF MatchInv, LogTypes
  <1>1. /\ Head(logQueue) \in LogCall /\ Head(logQueue) = logQueue[1]
        /\ logQueue' \in Seq(LogCall) /\ Len(logQueue') = Len(logQueue) - 1
        /\ \A i \in 1 .. Len(logQueue') : i + 1 \in 1 .. Len(logQueue) /\ logQueue'[i] = logQueue[i + 1]
    BY <1>0
  <1>2. ASSUME NEW i \in 0 .. Len(logQueue') PROVE LoadAfter(i)' <=> LoadAfter(i + 1)
    <2>1. ASSUME NEW j \in 1 .. Len(logQueue'), j > i, logQueue'[j].op = "load" PROVE LoadAfter(i + 1)
      <3>1. j + 1 \in 1 .. Len(logQueue) /\ j + 1 > i + 1 /\ logQueue[j + 1].op = "load"
        BY <1>0, <1>1, <2>1, SMTT(30)
      <3> QED
        BY <3>1, Zenon DEF LoadAfter
    <2>2. ASSUME NEW j \in 1 .. Len(logQueue), j > i + 1, logQueue[j].op = "load" PROVE LoadAfter(i)'
      <3>1. j - 1 \in 1 .. Len(logQueue') /\ j - 1 > i /\ logQueue'[j - 1] = logQueue[j - 1 + 1]
            /\ j - 1 + 1 = j
        BY <1>0, <1>1, <2>2, SMTT(30)
      <3> QED
        BY <2>2, <3>1, Zenon DEF LoadAfter
    <2> QED
      BY <2>1, <2>2, Zenon DEF LoadAfter
  <1>3. ASSUME Settled' PROVE ~logView.timer /\ ~LoadAfter(1)
    BY <1>0, <1>1, <1>2, <1>3, SMTT(30) DEF Settled
  <1>4. ASSUME Settled'
        PROVE  /\ Head(logQueue).filter = logView.filter
               /\ Head(logQueue).op = "load" => Head(logQueue).latest
    BY <1>0, <1>1, <1>3, <1>4 DEF MatchInv
  <1>5. ASSUME Settled', Head(logQueue).op # "load" PROVE Settled
    BY <1>0, <1>1, <1>3, <1>5 DEF Settled, LoadAfter
  <1> QED
    BY <1>1, <1>2, <1>4, <1>5, Zenon

\* Then the calls behind it keep what they asked for.
LEMMA RestKeeps ==
    ASSUME MatchInv, logQueue # <<>>, logQueue' = Tail(logQueue), logRows' = logRows,
           logView' \in LogState, logView'.filter = logView.filter, logView'.timer = logView.timer,
           Settled' /\ ~logView'.stale => logView'.entries \subseteq Logs!Matching(logView.filter, 0)
    PROVE  MatchInv'
  <1>1. LogTypes'
    BY CallAnswered DEF MatchInv, LogTypes
  <1>2. ASSUME ~logView'.timer, NEW i \in 1 .. Len(logQueue'), ~LoadAfter(i)'
        PROVE  /\ logQueue'[i].filter = logView'.filter
               /\ logQueue'[i].op = "load" => logQueue'[i].latest
    <2>1. Len(logQueue') \in Nat /\ i \in 0 .. Len(logQueue')
      BY <1>1 DEF LogTypes
    <2>2. i + 1 \in 1 .. Len(logQueue) /\ logQueue'[i] = logQueue[i + 1] /\ ~LoadAfter(i + 1)
      BY <1>2, <2>1, CallAnswered
    <2> QED
      BY <1>2, <2>2 DEF MatchInv
  <1>3. Logs!Matching(logView.filter, 0)' = Logs!Matching(logView.filter, 0)
    BY Zenon DEF Logs!Matching
  <1> QED
    BY <1>1, <1>2, <1>3, Zenon DEF MatchInv

\* The sizes of the pages.
LEMMA Sizes == PageSize \in Nat \ {0} /\ TailSize \in Nat \ {0} /\ TailSize <= PageSize
  BY LogsAssumption DEF Logs!LogViewBounds

\* The rows that a page adds are numbers.
LEMMA PageIn ==
    ASSUME LogTypes, NEW filter, NEW before \in Nat, NEW limit \in Nat \ {0},
           NEW page \in Logs!Query(filter, before, limit)
    PROVE  page \in SUBSET Nat /\ page \subseteq Logs!Matching(filter, 0)
  <1>1. page \subseteq Logs!Matching(filter, 0) /\ page \subseteq 1 .. Len(logRows)
    BY PageMatches, Zenon
  <1>2. \A id \in 1 .. Len(logRows) : id \in Nat
    BY DEF LogTypes
  <1> QED
    BY <1>1, <1>2, Zenon

\* An answer to "Load older", or to a poll, is merged.
LEMMA MergeMatches ==
    ASSUME MatchInv, Logs!PollReply \/ Logs!MoreReply
    PROVE  MatchInv'
  <1>0. LogTypes /\ logView \in LogState /\ logView.entries \in SUBSET Nat
    BY Zenon DEF MatchInv, LogTypes, LogState
  <1> DEFINE c == Head(logQueue)
  <1>1. /\ logQueue # <<>> /\ c.op # "load" /\ logQueue' = Tail(logQueue) /\ logRows' = logRows
    BY Zenon DEF Logs!PollReply, Logs!MoreReply, Logs!Answers
  <1>2. \/ /\ logView'.entries = logView.entries /\ logView' \in LogState
           /\ logView'.filter = logView.filter /\ logView'.timer = logView.timer
           /\ logView'.stale = logView.stale
        \/ \E before \in Nat, limit \in Nat \ {0} : \E page \in Logs!Query(c.filter, before, limit) :
             /\ logView'.entries = logView.entries \cup page /\ logView' \in LogState
             /\ logView'.filter = logView.filter /\ logView'.timer = logView.timer
             /\ logView'.stale = logView.stale
    <2>1. CASE Logs!PollReply
      <3>1. CASE logView' = logView
        BY <1>0, <3>1, Zenon
      <3>2. ASSUME NEW page \in Logs!Query(c.filter, 0, TailSize),
                   logView' = [logView EXCEPT !.entries = @ \cup page]
            PROVE  /\ logView'.entries = logView.entries \cup page /\ logView' \in LogState
                   /\ logView'.filter = logView.filter /\ logView'.timer = logView.timer
                   /\ logView'.stale = logView.stale
        <4>1. page \in SUBSET Nat
          BY <1>0, Sizes, PageIn, Zenon
        <4> QED
          BY <1>0, <3>2, <4>1, Zenon DEF LogState
      <3> QED
        BY <2>1, <3>1, <3>2, Sizes, Zenon DEF Logs!PollReply, Logs!None
    <2>2. CASE Logs!MoreReply
      <3>1. CASE logView' = [logView EXCEPT !.loadingMore = FALSE]
        BY <1>0, <3>1, Zenon DEF LogState
      <3>2. c.before \in Nat
        <4>1. c \in LogCall
          BY <1>0, <1>1 DEF LogTypes
        <4> QED
          BY <4>1, Zenon DEF LogCall
      <3>3. ASSUME NEW page \in Logs!Query(c.filter, c.before, PageSize),
                   logView' = [logView EXCEPT !.entries = @ \cup page, !.loadingMore = FALSE,
                                              !.olderCursor = Logs!NextBefore(page, PageSize)]
            PROVE  /\ logView'.entries = logView.entries \cup page /\ logView' \in LogState
                   /\ logView'.filter = logView.filter /\ logView'.timer = logView.timer
                   /\ logView'.stale = logView.stale
        <4>1. page \in SUBSET Nat /\ Logs!NextBefore(page, PageSize) \in Nat
          <5>1. page \in SUBSET Nat
            BY <1>0, <3>2, Sizes, PageIn, ZenonT(30)
          <5>2. Logs!NextBefore(page, PageSize) \in Nat
            BY <1>0, <3>2, Sizes, PageMatches, Zenon
          <5> QED
            BY <5>1, <5>2, Zenon
        <4> QED
          BY <1>0, <3>3, <4>1, Zenon DEF LogState
      <3> QED
        BY <2>2, <3>1, <3>2, <3>3, Sizes, Zenon DEF Logs!MoreReply
    <2> QED
      BY <2>1, <2>2, Zenon
  <1>3. Settled' /\ ~logView'.stale => logView'.entries \subseteq Logs!Matching(logView.filter, 0)
    <2> SUFFICES ASSUME Settled', ~logView'.stale
                 PROVE  logView'.entries \subseteq Logs!Matching(logView.filter, 0)
      OBVIOUS
    <2>1. Settled /\ c.filter = logView.filter
      BY <1>1, <1>2, CallAnswered, Zenon
    <2>2. ~logView.stale
      BY <1>2, Zenon
    <2>3. logView.entries \subseteq Logs!Matching(logView.filter, 0)
      BY <2>1, <2>2, Zenon DEF MatchInv
    <2> QED
      BY <1>0, <1>2, <2>1, <2>3, PageIn, Zenon
  <1> QED
    BY <1>1, <1>2, <1>3, RestKeeps, Zenon

\* A new query is sent: it stands last, and the earlier ones no longer count.
LEMMA LoadSent ==
    ASSUME MatchInv, Logs!load
    PROVE  /\ MatchInv' /\ LoadAfter(0)'
           /\ Len(logQueue') = Len(logQueue) + 1 /\ logQueue'[Len(logQueue) + 1].op = "load"
           /\ \A i \in 1 .. Len(logQueue) :
                /\ logQueue'[i].op = logQueue[i].op
                /\ logQueue'[i].before = logQueue[i].before
  <1> DEFINE n == Len(logQueue)
             c == Logs!Call("load", 0)
             old == [i \in 1 .. n |-> [logQueue[i] EXCEPT !.latest = FALSE]]
  <1>0. /\ logQueue \in Seq(LogCall) /\ n \in Nat /\ logRows \in Seq(LogRow) /\ logView \in LogState
        /\ DOMAIN logQueue = 1 .. n
    BY DEF MatchInv, LogTypes
  <1>1. c \in LogCall /\ c.op = "load" /\ c.filter = logView.filter /\ c.latest
    <2>1. logView.filter \in Filters
      BY <1>0, Zenon DEF LogState
    <2> QED
      BY <2>1, Zenon DEF Logs!Call, LogCall
  <1>2. logQueue' = Append(old, c) /\ logView' = [logView EXCEPT !.timer = FALSE] /\ logRows' = logRows
    BY <1>0, Zenon DEF Logs!load, Logs!None
  <1>3. ASSUME NEW i \in 1 .. n
        PROVE  old[i] \in LogCall /\ old[i].op = logQueue[i].op /\ old[i].before = logQueue[i].before
    <2>1. logQueue[i] \in LogCall
      BY <1>0
    <2> QED
      BY <2>1, Zenon DEF LogCall
  <1>4. logView' \in LogState /\ logView'.filter = logView.filter
    BY <1>0, <1>2, Zenon DEF LogState
  <1>5. old \in Seq(LogCall) /\ Len(old) = n
    <2>1. old \in [1 .. n -> LogCall]
      BY <1>3, Zenon
    <2> HIDE DEF old
    <2> QED
      BY <1>0, <2>1
  <1> HIDE DEF c, old, n
  <1>6. /\ logQueue' \in Seq(LogCall) /\ Len(logQueue') = n + 1 /\ logQueue'[n + 1] = c
        /\ \A i \in 1 .. n : logQueue'[i] = old[i]
    BY <1>0, <1>1, <1>2, <1>5
  <1>7. \A i \in 0 .. n : LoadAfter(i)'
    BY <1>0, <1>1, <1>6 DEF LoadAfter
  <1>8. ASSUME NEW i \in 1 .. Len(logQueue'), ~LoadAfter(i)'
        PROVE  /\ logQueue'[i].filter = logView'.filter
               /\ logQueue'[i].op = "load" => logQueue'[i].latest
    <2>1. i = n + 1
      BY <1>0, <1>6, <1>7, <1>8
    <2> QED
      BY <1>1, <1>4, <1>6, <2>1, Zenon
  <1>9. ~Settled'
    BY <1>0, <1>7 DEF Settled
  <1>10. LogTypes'
    BY <1>0, <1>2, <1>4, <1>6, Zenon DEF LogTypes
  <1>11. MatchInv'
    BY <1>8, <1>9, <1>10, Zenon DEF MatchInv
  <1> QED
    BY <1>0, <1>1, <1>3, <1>6, <1>7, <1>11, SMTT(30) DEF n

\* A row is stored: the ones that are there stay as they are.
LEMMA RowStored ==
    ASSUME LogTypes, Logs!Insert
    PROVE  /\ LogTypes' /\ UNCHANGED <<logView, logQueue>>
           /\ Len(logRows') = Len(logRows) + 1
           /\ \A id \in 1 .. Len(logRows) : logRows'[id] = logRows[id]
           /\ \A filter : /\ Logs!Matching(filter, 0) \subseteq Logs!Matching(filter, 0)'
                          /\ Logs!Matching(filter, 0)' \subseteq
                                 Logs!Matching(filter, 0) \cup {Len(logRows) + 1}
  <1> DEFINE last == IF logRows = <<>> THEN 0 ELSE logRows[Len(logRows)].ts
  <1>0. logRows \in Seq(LogRow) /\ Len(logRows) \in Nat
    BY DEF LogTypes
  <1>1. PICK kind \in Kinds, same \in BOOLEAN :
          logRows' = Append(logRows, [kind |-> kind, ts |-> IF same THEN last ELSE last + 1])
    BY Zenon DEF Logs!Insert
  <1>2. last \in Nat
    <2>1. CASE logRows # <<>>
      <3>1. logRows[Len(logRows)] \in LogRow
        BY <1>0, <2>1
      <3> QED
        BY <2>1, <3>1, Zenon DEF LogRow
    <2> QED
      BY <2>1, Zenon
  <1> HIDE DEF last
  <1>3. [kind |-> kind, ts |-> IF same THEN last ELSE last + 1] \in LogRow
    BY <1>2 DEF LogRow
  <1> DEFINE row == [kind |-> kind, ts |-> IF same THEN last ELSE last + 1]
  <1> HIDE DEF row
  <1>4. /\ logRows' \in Seq(LogRow) /\ Len(logRows') = Len(logRows) + 1
        /\ \A id \in 1 .. Len(logRows) : logRows'[id] = logRows[id]
    <2>1. row \in LogRow /\ logRows' = Append(logRows, row)
      BY <1>1, <1>3, Zenon DEF row
    <2> QED
      BY <1>0, <2>1
  <1>5. UNCHANGED <<logView, logQueue>>
    BY Zenon DEF Logs!Insert
  <1>6. DOMAIN logRows = 1 .. Len(logRows) /\ DOMAIN logRows' = 1 .. (Len(logRows) + 1)
    BY <1>0, <1>4
  <1>7. ASSUME NEW filter
        PROVE  /\ Logs!Matching(filter, 0) \subseteq Logs!Matching(filter, 0)'
               /\ Logs!Matching(filter, 0)' \subseteq Logs!Matching(filter, 0) \cup {Len(logRows) + 1}
    <2>1. /\ \A id \in 1 .. Len(logRows) : id \in 1 .. (Len(logRows) + 1)
          /\ \A id \in 1 .. (Len(logRows) + 1) : id \in 1 .. Len(logRows) \/ id = Len(logRows) + 1
      BY <1>0
    <2> QED
      BY <1>4, <1>6, <2>1, Zenon DEF Logs!Matching, Logs!None
  <1> QED
    BY <1>4, <1>5, <1>7, Zenon DEF LogTypes

\* The answer of a query: the newest one's replaces the list.
LEMMA ReplaceMatches ==
    ASSUME MatchInv, Logs!LoadReply
    PROVE  MatchInv'
  <1> DEFINE c == Head(logQueue)
  <1>0. LogTypes /\ logView \in LogState
    BY Zenon DEF MatchInv, LogTypes
  <1>1. logQueue # <<>> /\ c.op = "load" /\ logQueue' = Tail(logQueue) /\ logRows' = logRows
    BY Zenon DEF Logs!LoadReply, Logs!Answers
  <1>2. \/ ~c.latest /\ logView' = logView
        \/ \E page \in Logs!Query(c.filter, 0, PageSize) :
             /\ logView'.entries = page /\ logView' \in LogState
             /\ logView'.filter = logView.filter /\ logView'.timer = logView.timer
        \/ /\ logView'.stale /\ logView' \in LogState
           /\ logView'.filter = logView.filter /\ logView'.timer = logView.timer
    <2>1. CASE logView' = [logView EXCEPT !.stale = TRUE]
      BY <1>0, <2>1, Zenon DEF LogState
    <2>2. ASSUME NEW page \in Logs!Query(c.filter, 0, PageSize),
                 logView' = [logView EXCEPT !.entries = page, !.stale = FALSE,
                                            !.olderCursor = Logs!NextBefore(page, PageSize)]
          PROVE  /\ logView'.entries = page /\ logView' \in LogState
                 /\ logView'.filter = logView.filter /\ logView'.timer = logView.timer
      <3>1. page \in SUBSET Nat
        BY <1>0, Sizes, PageIn, Zenon
      <3>2. Logs!NextBefore(page, PageSize) \in Nat
        BY <1>0, Sizes, PageMatches, Zenon
      <3> QED
        BY <1>0, <2>2, <3>1, <3>2, Zenon DEF LogState
    <2>3. \/ ~c.latest /\ logView' = logView
          \/ \E page \in Logs!Query(c.filter, 0, PageSize) :
               logView' = [logView EXCEPT !.entries = page, !.stale = FALSE,
                                          !.olderCursor = Logs!NextBefore(page, PageSize)]
          \/ logView' = [logView EXCEPT !.stale = TRUE]
      BY Zenon DEF Logs!LoadReply, Logs!None
    <2> QED
      BY <2>1, <2>2, <2>3, Zenon
  <1>3. logView' \in LogState /\ logView'.filter = logView.filter /\ logView'.timer = logView.timer
    BY <1>0, <1>2, Zenon
  <1>4. Settled' /\ ~logView'.stale => logView'.entries \subseteq Logs!Matching(logView.filter, 0)
    <2> SUFFICES ASSUME Settled', ~logView'.stale
                 PROVE  logView'.entries \subseteq Logs!Matching(logView.filter, 0)
      OBVIOUS
    <2>1. c.latest /\ c.filter = logView.filter
      BY <1>1, <1>3, CallAnswered, ZenonT(30)
    <2>2. PICK page \in Logs!Query(c.filter, 0, PageSize) : logView'.entries = page
      BY <1>2, <2>1, Zenon
    <2> QED
      BY <1>0, <2>1, <2>2, Sizes, PageIn
  <1> QED
    BY <1>1, <1>3, <1>4, RestKeeps, Zenon

\* Every step keeps the invariant.
LEMMA MatchStep == MatchInv /\ [Logs!Next]_Logs!vars => MatchInv'
  <1> SUFFICES ASSUME MatchInv, [Logs!Next]_Logs!vars PROVE MatchInv'
    OBVIOUS
  <1>0. LogTypes /\ logView \in LogState
    BY Zenon DEF MatchInv, LogTypes
  <1>1. CASE Logs!Insert
    <2>1. LogTypes' /\ logView' = logView /\ logQueue' = logQueue
      BY <1>0, <1>1, RowStored, Zenon
    <2>2. Logs!Matching(logView.filter, 0) \subseteq Logs!Matching(logView.filter, 0)'
      BY <1>0, <1>1, RowStored, Zenon
    <2>3. /\ \A i : LoadAfter(i)' <=> LoadAfter(i)
          /\ Settled' <=> Settled
      BY <2>1, Zenon DEF LoadAfter, Settled
    <2> QED
      BY <2>1, <2>2, <2>3, Zenon DEF MatchInv
  <1>2. CASE Logs!setFilters
    <2>1. logView' \in LogState /\ logView'.timer /\ logQueue' = logQueue /\ logRows' = logRows
      BY <1>0, <1>2, Zenon DEF Logs!setFilters, LogState
    <2> QED
      BY <1>0, <2>1, Zenon DEF MatchInv, LogTypes, Settled
  <1>3. CASE Logs!load
    BY <1>3, LoadSent, Zenon
  <1>4. CASE Logs!toggleTail
    <2>1. /\ logView' \in LogState /\ logView'.filter = logView.filter
          /\ logView'.timer = logView.timer /\ logView'.stale = logView.stale
          /\ logView'.entries = logView.entries /\ logRows' = logRows
      BY <1>0, <1>4, Zenon DEF Logs!toggleTail, LogState
    <2>2. CASE logQueue' = logQueue
      <3>1. Logs!Matching(logView.filter, 0)' = Logs!Matching(logView.filter, 0)
        BY <2>1, Zenon DEF Logs!Matching
      <3>2. /\ \A i : LoadAfter(i)' <=> LoadAfter(i)
            /\ Settled' <=> Settled
        BY <2>1, <2>2, Zenon DEF LoadAfter, Settled
      <3> QED
        BY <1>0, <2>1, <2>2, <3>1, <3>2, ZenonT(30) DEF MatchInv, LogTypes
    <2>3. CASE logQueue' = Append(logQueue, Logs!Call("poll", 0))
      BY <2>1, <2>3, CallSent, Zenon
    <2> QED
      BY <1>4, <2>2, <2>3 DEF Logs!toggleTail, Logs!None
  <1>5. CASE Logs!poll
    BY <1>0, <1>5, CallSent, Zenon DEF Logs!poll, Logs!None
  <1>6. CASE Logs!loadMore
    <2>1. /\ logView' \in LogState /\ logView'.filter = logView.filter
          /\ logView'.timer = logView.timer /\ logView'.stale = logView.stale
          /\ logView'.entries = logView.entries /\ logRows' = logRows
          /\ logView.olderCursor \in Nat
      BY <1>0, <1>6, Zenon DEF Logs!loadMore, LogState
    <2>2. logQueue' = Append(logQueue, Logs!Call("more", logView.olderCursor))
      BY <1>6, Zenon DEF Logs!loadMore
    <2> QED
      BY <2>1, <2>2, CallSent, Zenon
  <1>7. CASE Logs!LoadReply
    BY <1>7, ReplaceMatches, Zenon
  <1>8. CASE Logs!PollReply \/ Logs!MoreReply
    BY <1>8, MergeMatches, Zenon
  <1>9. CASE UNCHANGED Logs!vars
    <2>1. logView' = logView /\ logQueue' = logQueue /\ logRows' = logRows
      BY <1>9, Zenon DEF Logs!vars
    <2> QED
      BY <2>1, Zenon DEF MatchInv, LogTypes, LoadAfter, Settled, Logs!Matching
  <1> QED
    BY <1>1, <1>2, <1>3, <1>4, <1>5, <1>6, <1>7, <1>8, <1>9, ZenonT(30) DEF Logs!Next

\* At first the table and the queue are empty and the first query waits.
LEMMA LogInit ==
    ASSUME Logs!Init
    PROVE  MatchInv /\ logRows = <<>> /\ logQueue = <<>> /\ logView.timer
  <1>1. logRows = <<>> /\ logQueue = <<>> /\ logView \in LogState /\ logView.timer
    <2>1. logRows = <<>> /\ logQueue = <<>>
      BY Zenon DEF Logs!Init
    <2>2. logView \in [filter : Filters, entries : {{}}, olderCursor : {0}, loadingMore : {FALSE},
                       tailing : {FALSE}, timer : {TRUE}, stale : {FALSE}]
      BY Zenon DEF Logs!Init, Logs!None
    <2>3. PICK filter \in Filters :
            logView = [filter |-> filter, entries |-> {}, olderCursor |-> 0, loadingMore |-> FALSE,
                       tailing |-> FALSE, timer |-> TRUE, stale |-> FALSE]
      BY <2>2, Zenon
    <2> QED
      BY <2>1, <2>3, Zenon DEF LogState
  <1>2. LogTypes
    BY <1>1 DEF LogTypes
  <1> QED
    BY <1>1, <1>2, Zenon DEF MatchInv, Settled

\* Once every answer is in, the rows on the screen are rows the filter matches:
\* useLogStream merges polls and older pages without looking at the filter, and a
\* query that replaces the list always comes after the last of them.  For any rows,
\* filters, page sizes, failed queries and order of clicks, polls and answers.
THEOREM RowsAreTheFilters == Logs!Spec => []OnlyMatchingRows
  <1>1. Logs!Init => MatchInv
    BY LogInit, Zenon
  <1>2. MatchInv => OnlyMatchingRows
    <2> SUFFICES ASSUME MatchInv, Logs!Quiet
                 PROVE  logView.entries \subseteq Logs!Matching(logView.filter, Logs!None)
      BY DEF OnlyMatchingRows, Logs!OnlyMatchingRows
    <2>1. ~LoadAfter(0)
      BY DEF Logs!Quiet, LoadAfter
    <2> QED
      BY <2>1, Zenon DEF Logs!Quiet, MatchInv, Settled, Logs!None
  <1> QED
    BY <1>1, <1>2, MatchStep, PTL DEF Logs!Spec

-----------------------------------------------------------------------------
(* The list has no hole.                                                   *)

\* The rows that match and are above all that is shown.
Newer == {id \in Logs!Matching(logView.filter, 0) : \A e \in logView.entries : id > e}

\* The next poll reaches the rows above, and between the cursor and a row that is
\* shown nothing is missing.
Seamless ==
    /\ Cardinality(Newer) <= TailSize
    /\ \A id \in Logs!Matching(logView.filter, 0), e \in logView.entries :
         id < e /\ id >= logView.olderCursor => id \in logView.entries

\* Without ties a row's timestamp is its place.
Ordered == \A id \in 1 .. Len(logRows) : logRows[id].ts = id

\* One call for older rows at a time, and no query before it.
OneMore ==
    \A i, j \in 1 .. Len(logQueue) : logQueue[j].op = "more" =>
       /\ logView.loadingMore
       /\ logQueue[i].op = "more" => i = j
       /\ i < j => logQueue[i].op # "load"

AtCursor ==
    Settled => \A i \in 1 .. Len(logQueue) :
                  logQueue[i].op = "more" => logQueue[i].before = logView.olderCursor

GapInv == MatchInv /\ Ordered /\ OneMore /\ AtCursor /\ (Settled /\ ~logView.stale => Seamless)

\* What is known of the rows and of what is shown.
LEMMA Shown ==
    ASSUME MatchInv, Settled, ~logView.stale
    PROVE  /\ Len(logRows) \in Nat /\ logView.olderCursor \in Nat
           /\ logView.entries \subseteq Logs!Matching(logView.filter, 0)
           /\ \A id \in Logs!Matching(logView.filter, 0) :
                /\ id \in 1 .. Len(logRows) /\ id \in Nat /\ id > 0
                /\ logRows[id].kind \in logView.filter
           /\ IsFiniteSet(Newer) /\ Cardinality(Newer) \in Nat
  <1>1. LogTypes /\ Len(logRows) \in Nat /\ logView.olderCursor \in Nat
    BY DEF MatchInv, LogTypes, LogState
  <1>2. logView.entries \subseteq Logs!Matching(logView.filter, 0)
    BY Zenon DEF MatchInv
  <1>3. \A id \in Logs!Matching(logView.filter, 0) :
          id \in 1 .. Len(logRows) /\ logRows[id].kind \in logView.filter
    BY <1>1 DEF Logs!Matching, LogTypes
  <1>4. \A id \in 1 .. Len(logRows) : id \in Nat /\ id > 0
    BY <1>1
  <1>5. IsFiniteSet(Newer)
    <2>1. Newer \subseteq 1 .. Len(logRows)
      BY <1>3, Zenon DEF Newer
    <2>2. IsFiniteSet(1 .. Len(logRows))
      BY <1>1, FS_Interval, SMTT(30)
    <2> QED
      BY <2>1, <2>2, FS_Subset, Zenon
  <1> QED
    BY <1>1, <1>2, <1>3, <1>4, <1>5, FS_CardinalityType, ZenonT(30)

\* The newest timestamp shown is that of the greatest row shown.
LEMMA NewestIs ==
    ASSUME MatchInv, Settled, ~logView.stale, Ordered
    PROVE  /\ Logs!NewestShown \in logView.entries \cup {0} /\ Logs!NewestShown \in Nat
           /\ \A e \in logView.entries : e <= Logs!NewestShown
  <1> DEFINE S == {logRows[id].ts : id \in logView.entries} \cup {0}
  <1>1. \A e \in logView.entries : logRows[e].ts = e /\ e \in Nat /\ e <= Len(logRows)
    BY Shown, SMTT(30) DEF Ordered
  <1>2. S = logView.entries \cup {0}
    BY <1>1
  <1> HIDE DEF S
  <1>3. S \in SUBSET Nat /\ S # {} /\ \A y \in S : y <= Len(logRows)
    BY <1>1, <1>2, Shown, SMTT(30)
  <1>4. Logs!Max(S) \in S /\ \A y \in S : y <= Logs!Max(S)
    BY <1>3, Shown, GreatestIs, Zenon
  <1>5. Logs!NewestShown = Logs!Max(S)
    BY Zenon DEF Logs!NewestShown, S
  <1> QED
    BY <1>2, <1>3, <1>4, <1>5, Zenon

\* A new row is above all that is shown, and the next poll still reaches those above.
LEMMA InsertSeamless ==
    ASSUME GapInv, Allowed = {}, Logs!Insert, MatchInv'
    PROVE  GapInv'
  <1>0. LogTypes /\ logView' = logView /\ logQueue' = logQueue /\ logRows \in Seq(LogRow)
    BY RowStored, Zenon DEF GapInv, MatchInv, LogTypes
  <1>1. Settled' <=> Settled
    BY <1>0, Zenon DEF Settled, LoadAfter
  <1>2. Ordered'
    <2> DEFINE last == IF logRows = <<>> THEN 0 ELSE logRows[Len(logRows)].ts
    <2>1. PICK kind \in Kinds : logRows' = Append(logRows, [kind |-> kind, ts |-> last + 1])
      BY Zenon DEF Logs!Insert
    <2>2. last = Len(logRows) /\ Len(logRows) \in Nat
      BY <1>0 DEF GapInv, Ordered
    <2> HIDE DEF last
    <2>3. /\ Len(logRows') = Len(logRows) + 1 /\ logRows'[Len(logRows) + 1].ts = last + 1
          /\ \A id \in 1 .. Len(logRows) : logRows'[id] = logRows[id]
      BY <1>0, <2>1, <2>2
    <2> QED
      BY <2>2, <2>3 DEF GapInv, Ordered
  <1>3. OneMore' /\ AtCursor'
    BY <1>0, <1>1, ZenonT(30) DEF GapInv, OneMore, AtCursor
  <1>4. ASSUME Settled, ~logView.stale PROVE Seamless'
    <2> DEFINE n == Len(logRows)
               F == Logs!Matching(logView.filter, 0)
    <2>0. MatchInv /\ Ordered /\ Seamless
      BY <1>4, Zenon DEF GapInv
    <2>1. Cardinality(Logs!Unseen) < TailSize
      <3>1. ~Logs!LoadPending
        <4>1. DOMAIN logQueue = 1 .. Len(logQueue) /\ \A j \in 1 .. Len(logQueue) : j > 0
          BY <1>0 DEF LogTypes
        <4> QED
          BY <1>4, <4>1, Zenon DEF Logs!LoadPending, Settled, LoadAfter
      <3> QED
        BY <3>1, SameSets, Zenon DEF Logs!Insert
    <2>2. Newer \subseteq Logs!Unseen
      <3> SUFFICES ASSUME NEW id \in Newer PROVE id \in Logs!Unseen
        OBVIOUS
      <3>1. id \in F /\ \A e \in logView.entries : id > e
        BY Zenon DEF Newer
      <3>2. id \in 1 .. n /\ id > 0 /\ logRows[id].kind \in logView.filter /\ id \in DOMAIN logRows
        BY <1>0, <1>4, <2>0, <3>1, Shown
      <3>3. logRows[id].ts > Logs!NewestShown
        <4>1. id > Logs!NewestShown
          BY <1>4, <2>0, <3>1, <3>2, NewestIs, Zenon
        <4> QED
          BY <2>0, <3>2, <4>1, Zenon DEF Ordered
      <3> QED
        BY <3>2, <3>3, Zenon DEF Logs!Unseen
    <2>3. IsFiniteSet(Logs!Unseen)
      <3>1. Logs!Unseen \subseteq 1 .. n /\ n \in Nat
        BY <1>0 DEF Logs!Unseen
      <3>2. IsFiniteSet(1 .. n)
        BY <3>1, FS_Interval
      <3> QED
        BY <3>1, <3>2, FS_Subset, Zenon
    <2>4. Cardinality(Newer) <= Cardinality(Logs!Unseen) /\ Cardinality(Logs!Unseen) \in Nat
      BY <2>2, <2>3, FS_Subset, FS_CardinalityType, Zenon
    <2>5. F' \subseteq F \cup {n + 1}
      BY <1>0, RowStored, Zenon
    <2>6. Cardinality(Newer') <= Cardinality(Newer) + 1 /\ Cardinality(Newer') \in Nat
      <3>1. Newer' \subseteq Newer \cup {n + 1}
        BY <1>0, <2>5, Zenon DEF Newer
      <3>2. /\ IsFiniteSet(Newer \cup {n + 1}) /\ IsFiniteSet(Newer)
            /\ Cardinality(Newer \cup {n + 1}) \in {Cardinality(Newer), Cardinality(Newer) + 1}
        BY <1>4, <2>0, Shown, FS_AddElement, Zenon
      <3>3. Cardinality(Newer') <= Cardinality(Newer \cup {n + 1}) /\ Cardinality(Newer') \in Nat
        BY <3>1, <3>2, FS_Subset, FS_CardinalityType, Zenon
      <3> QED
        BY <1>4, <2>0, <3>2, <3>3, Shown
    <2>7. Cardinality(Newer') <= TailSize
      <3>1. Cardinality(Newer) \in Nat
        BY <1>4, <2>0, Shown, Zenon
      <3> QED
        BY <2>1, <2>4, <2>6, <3>1, Sizes
    <2>8. ASSUME NEW id \in F', NEW e \in logView.entries, id < e, id >= logView.olderCursor
          PROVE  id \in logView.entries
      <3>1. e \in 1 .. n /\ n \in Nat
        BY <1>4, <2>0, Shown, Zenon
      <3>2. id \in F
        BY <2>5, <2>8, <3>1
      <3> QED
        BY <2>0, <2>8, <3>2, Zenon DEF Seamless
    <2> QED
      BY <1>0, <2>7, <2>8, Zenon DEF Seamless
  <1> QED
    BY <1>0, <1>1, <1>2, <1>3, <1>4, Zenon DEF GapInv

\* The page sends a call, or only changes what does not matter here.
LEMMA SendSeamless ==
    ASSUME GapInv, Allowed = {}, MatchInv',
           Logs!setFilters \/ Logs!load \/ Logs!toggleTail \/ Logs!poll \/ Logs!loadMore
    PROVE  GapInv'
  <1> DEFINE n == Len(logQueue)
  <1>0. /\ LogTypes /\ logView \in LogState /\ logQueue \in Seq(LogCall) /\ n \in Nat
        /\ DOMAIN logQueue = 1 .. n
    BY DEF GapInv, MatchInv, LogTypes
  <1>1. Ordered'
    BY Zenon
    DEF GapInv, Ordered, Logs!setFilters, Logs!load, Logs!toggleTail, Logs!poll, Logs!loadMore
  <1>2. ASSUME logRows' = logRows, logView'.filter = logView.filter, logView'.timer = logView.timer,
               logView'.stale = logView.stale, logView'.entries = logView.entries,
               logView'.olderCursor = logView.olderCursor, Settled' => Settled
        PROVE  Settled' /\ ~logView'.stale => Seamless'
    <2>1. Logs!Matching(logView.filter, 0)' = Logs!Matching(logView.filter, 0)
      BY <1>2, Zenon DEF Logs!Matching
    <2>2. Newer' = Newer
      BY <1>2, <2>1, Zenon DEF Newer
    <2> QED
      BY <1>2, <2>1, <2>2, Zenon DEF GapInv, Seamless
  <1>3. CASE Logs!setFilters
    <2>1. /\ logView'.timer /\ logView'.loadingMore = logView.loadingMore /\ logQueue' = logQueue
      BY <1>0, <1>3, Zenon DEF Logs!setFilters, LogState
    <2>2. ~Settled'
      BY <2>1, Zenon DEF Settled
    <2>3. OneMore'
      BY <2>1, Zenon DEF GapInv, OneMore
    <2> QED
      BY <1>1, <2>2, <2>3, Zenon DEF GapInv, AtCursor
  <1>4. CASE Logs!load
    <2>1. /\ Len(logQueue') = n + 1 /\ logQueue'[n + 1].op = "load" /\ LoadAfter(0)'
          /\ \A i \in 1 .. n : logQueue'[i].op = logQueue[i].op
      BY <1>4, LoadSent, Zenon DEF GapInv
    <2>2. ~Settled'
      BY <2>1, Zenon DEF Settled
    <2>3. logView'.loadingMore = logView.loadingMore
      BY <1>0, <1>4, Zenon DEF Logs!load, LogState
    <2>4. OneMore'
      <3>1. \A i \in 1 .. n + 1 : i \in 1 .. n \/ i = n + 1
        BY <1>0
      <3>2. \A j \in 1 .. n : ~(n + 1 < j)
        BY <1>0
      <3> QED
        BY <2>1, <2>3, <3>1, <3>2 DEF GapInv, OneMore
    <2> QED
      BY <1>1, <2>2, <2>4, Zenon DEF GapInv, AtCursor
  <1>5. ASSUME NEW op \in {"poll", "more"}, NEW before,
               logQueue' = Append(logQueue, Logs!Call(op, before))
        PROVE  /\ Len(logQueue') = n + 1 /\ logQueue'[n + 1].op = op
               /\ logQueue'[n + 1].before = before
               /\ \A i \in 1 .. n : logQueue'[i] = logQueue[i]
               /\ LoadAfter(0) => LoadAfter(0)'
    <2> DEFINE c == Logs!Call(op, before)
    <2>1. c.op = op /\ c.before = before
      BY Zenon DEF Logs!Call
    <2> HIDE DEF c
    <2>2. /\ Len(logQueue') = n + 1 /\ logQueue'[n + 1] = c
          /\ \A i \in 1 .. n : logQueue'[i] = logQueue[i]
      BY <1>0, <1>5 DEF c
    <2>3. LoadAfter(0) => LoadAfter(0)'
      BY <1>0, <2>2 DEF LoadAfter
    <2> QED
      BY <2>1, <2>2, <2>3, Zenon
  <1>6. CASE Logs!toggleTail \/ Logs!poll
    <2>1. /\ logRows' = logRows /\ logView'.filter = logView.filter /\ logView'.timer = logView.timer
          /\ logView'.stale = logView.stale /\ logView'.entries = logView.entries
          /\ logView'.olderCursor = logView.olderCursor
          /\ logView'.loadingMore = logView.loadingMore
      BY <1>0, <1>6, Zenon DEF Logs!toggleTail, Logs!poll, LogState
    <2>2. logQueue' = logQueue \/ logQueue' = Append(logQueue, Logs!Call("poll", 0))
      BY <1>6, Zenon DEF Logs!toggleTail, Logs!poll, Logs!None
    <2>3. Settled' => Settled
      BY <1>5, <2>1, <2>2, Zenon DEF Settled, LoadAfter
    <2>4. OneMore' /\ AtCursor'
      <3>1. CASE logQueue' = logQueue
        BY <2>1, <2>3, <3>1, ZenonT(30) DEF GapInv, OneMore, AtCursor
      <3>2. CASE logQueue' = Append(logQueue, Logs!Call("poll", 0))
        <4>1. /\ Len(logQueue') = n + 1 /\ logQueue'[n + 1].op = "poll"
              /\ \A i \in 1 .. n : logQueue'[i] = logQueue[i]
          BY <1>5, <3>2, Zenon
        <4>2. \A i \in 1 .. n + 1 : i \in 1 .. n \/ i = n + 1
          BY <1>0
        <4>3. OneMore'
          BY <2>1, <4>1, <4>2 DEF GapInv, OneMore
        <4>4. AtCursor'
          BY <2>1, <2>3, <4>1, <4>2 DEF GapInv, AtCursor
        <4> QED
          BY <4>3, <4>4
      <3> QED
        BY <2>2, <3>1, <3>2
    <2> QED
      BY <1>1, <1>2, <2>1, <2>3, <2>4, Zenon DEF GapInv
  <1>7. CASE Logs!loadMore
    <2>1. /\ logRows' = logRows /\ logView'.filter = logView.filter /\ logView'.timer = logView.timer
          /\ logView'.stale = logView.stale /\ logView'.entries = logView.entries
          /\ logView'.olderCursor = logView.olderCursor /\ logView'.loadingMore
      BY <1>0, <1>7, Zenon DEF Logs!loadMore, LogState
    <2>2. /\ Len(logQueue') = n + 1 /\ logQueue'[n + 1].op = "more"
          /\ logQueue'[n + 1].before = logView.olderCursor
          /\ \A i \in 1 .. n : logQueue'[i] = logQueue[i]
          /\ LoadAfter(0) => LoadAfter(0)'
      BY <1>5, <1>7, Zenon DEF Logs!loadMore
    <2>3. Settled' => Settled
      BY <2>1, <2>2, Zenon DEF Settled
    <2>4. \A i \in 1 .. n : logQueue[i].op \notin {"load", "more"}
      <3>1. ~logView.loadingMore /\ ~Logs!LoadPending
        BY <1>7, Zenon DEF Logs!loadMore, Logs!CanLoadOlder
      <3> QED
        BY <1>0, <3>1, Zenon DEF Logs!LoadPending, GapInv, OneMore
    <2>5. \A i \in 1 .. n + 1 : i \in 1 .. n \/ i = n + 1
      BY <1>0
    <2>6. OneMore'
      BY <1>0, <2>1, <2>2, <2>4, <2>5 DEF OneMore
    <2>7. AtCursor'
      BY <2>1, <2>2, <2>4, <2>5, Zenon DEF AtCursor
    <2> QED
      BY <1>1, <1>2, <2>1, <2>3, <2>6, <2>7, Zenon DEF GapInv
  <1> QED
    BY <1>3, <1>4, <1>6, <1>7, Zenon

\* The first call is answered: with a query no call for older rows is behind it, and
\* with such a call no other one.
LEMMA MoreAnswered ==
    ASSUME GapInv, logQueue # <<>>, logQueue' = Tail(logQueue),
           logView'.filter = logView.filter, logView'.timer = logView.timer,
           Head(logQueue).op \in {"load", "more"} \/
             (logView'.loadingMore = logView.loadingMore /\ logView'.olderCursor = logView.olderCursor)
    PROVE  OneMore' /\ AtCursor'
  <1> DEFINE m == Len(logQueue')
  <1>1. /\ Head(logQueue) = logQueue[1] /\ m \in Nat /\ Len(logQueue) = m + 1
        /\ \A i \in 1 .. m : i + 1 \in 1 .. Len(logQueue) /\ logQueue'[i] = logQueue[i + 1]
    <2>1. logQueue \in Seq(LogCall)
      BY Zenon DEF GapInv, MatchInv, LogTypes
    <2> QED
      BY <2>1
  <1>2. CASE Head(logQueue).op \in {"load", "more"}
    <2>1. ASSUME NEW i \in 1 .. m, logQueue'[i].op = "more" PROVE FALSE
      <3>1. 1 \in 1 .. Len(logQueue) /\ i + 1 \in 1 .. Len(logQueue) /\ 1 < i + 1 /\ i + 1 # 1
        BY <1>1
      <3>2. logQueue[i + 1].op = "more"
        BY <1>1, <2>1, Zenon
      <3> QED
        BY <1>1, <1>2, <3>1, <3>2, Zenon DEF GapInv, OneMore
    <2> QED
      BY <2>1, Zenon DEF OneMore, AtCursor
  <1>3. CASE Head(logQueue).op \notin {"load", "more"}
    <2>1. OneMore'
      BY <1>1, <1>3 DEF GapInv, OneMore
    <2>2. Settled' => Settled
      BY <1>3, CallAnswered, Zenon DEF GapInv
    <2>3. AtCursor'
      BY <1>1, <1>3, <2>2, ZenonT(30) DEF GapInv, AtCursor
    <2> QED
      BY <2>1, <2>3
  <1> QED
    BY <1>2, <1>3

\* The answer of a query that counts leaves no hole.
LEMMA ReplaceSeamless ==
    ASSUME GapInv, MatchInv', Logs!LoadReply
    PROVE  GapInv'
  <1> DEFINE c == Head(logQueue)
  <1>0. LogTypes /\ logView \in LogState /\ MatchInv /\ Ordered
    BY Zenon DEF GapInv, MatchInv, LogTypes
  <1>1. logQueue # <<>> /\ c.op = "load" /\ logQueue' = Tail(logQueue) /\ logRows' = logRows
    BY Zenon DEF Logs!LoadReply, Logs!Answers
  <1>2. logView'.filter = logView.filter /\ logView'.timer = logView.timer
    BY <1>0, Zenon DEF Logs!LoadReply, LogState
  <1>3. OneMore' /\ AtCursor'
    BY <1>1, <1>2, MoreAnswered, Zenon
  <1>4. Ordered'
    BY <1>0, <1>1, Zenon DEF Ordered
  <1>5. ASSUME Settled', ~logView'.stale PROVE Seamless'
    <2> DEFINE F == Logs!Matching(logView.filter, 0)
               page == logView'.entries
    <2>1. c.latest /\ c.filter = logView.filter
      BY <1>0, <1>1, <1>2, <1>5, CallAnswered, Zenon
    <2>2. page \in Logs!Query(logView.filter, 0, PageSize)
          /\ logView'.olderCursor = Logs!NextBefore(page, PageSize)
      <3>1. logView' # [logView EXCEPT !.stale = TRUE]
        BY <1>0, <1>5, Zenon DEF LogState
      <3>2. PICK p \in Logs!Query(c.filter, 0, PageSize) :
              logView' = [logView EXCEPT !.entries = p, !.olderCursor = Logs!NextBefore(p, PageSize),
                                         !.stale = FALSE]
        BY <2>1, <3>1, Zenon DEF Logs!LoadReply, Logs!None
      <3>3. logView'.entries = p /\ logView'.olderCursor = Logs!NextBefore(p, PageSize)
        BY <1>0, <3>2, Zenon DEF LogState
      <3> QED
        BY <2>1, <3>2, <3>3, Zenon
    <2> HIDE DEF page
    <2>3. \A id \in F \ page : /\ Logs!NextBefore(page, PageSize) \in page
                               /\ id < Logs!NextBefore(page, PageSize)
      BY <1>0, <2>2, Sizes, PageHasNewest DEF Ordered
    <2>4. page \subseteq F /\ \A id \in F : id \in Nat
      <3>1. page \subseteq F /\ F \subseteq 1 .. Len(logRows)
        BY <1>0, <2>2, Sizes, PageMatches, Zenon
      <3>2. \A id \in 1 .. Len(logRows) : id \in Nat
        BY <1>0 DEF LogTypes
      <3> QED
        BY <3>1, <3>2, Zenon
    <2>5. F' = F
      BY <1>1, <1>2, Zenon DEF Logs!Matching
    <2> HIDE DEF F
    <2>6. Newer' = {}
      <3> SUFFICES ASSUME NEW id \in F, \A e \in page : id > e PROVE FALSE
        BY <1>2, <2>5, Zenon DEF Newer, F, page
      <3> QED
        BY <2>3, <2>4
    <2>7. Cardinality(Newer') <= TailSize
      BY <2>6, FS_EmptySet, Sizes
    <2>8. ASSUME NEW id \in F, id >= logView'.olderCursor PROVE id \in page
      <3>1. id < logView'.olderCursor => FALSE
        <4>1. logView'.olderCursor \in Nat
          BY Zenon DEF MatchInv, LogTypes, LogState
        <4> QED
          BY <2>4, <2>8, <4>1
      <3> QED
        BY <2>2, <2>3, <3>1, Zenon
    <2> QED
      BY <1>2, <2>5, <2>7, <2>8, Zenon DEF Seamless, F, page
  <1> QED
    BY <1>3, <1>4, <1>5, Zenon DEF GapInv
\* The answer of a poll closes the list upwards.
LEMMA PollSeamless ==
    ASSUME GapInv, MatchInv', Logs!PollReply
    PROVE  GapInv'
  <1> DEFINE c == Head(logQueue)
             F == Logs!Matching(logView.filter, 0)
  <1>0. LogTypes /\ logView \in LogState /\ MatchInv /\ Ordered
    BY Zenon DEF GapInv, MatchInv, LogTypes
  <1>1. logQueue # <<>> /\ c.op = "poll" /\ logQueue' = Tail(logQueue) /\ logRows' = logRows
    BY Zenon DEF Logs!PollReply, Logs!Answers
  <1>2. /\ logView'.filter = logView.filter /\ logView'.timer = logView.timer
        /\ logView'.stale = logView.stale /\ logView'.loadingMore = logView.loadingMore
        /\ logView'.olderCursor = logView.olderCursor
        /\ \/ logView'.entries = logView.entries
           \/ \E page \in Logs!Query(c.filter, 0, TailSize) : logView'.entries = logView.entries \cup page
    <2>1. \/ logView' = logView
          \/ \E page \in Logs!Query(c.filter, 0, TailSize) :
               logView' = [logView EXCEPT !.entries = @ \cup page]
      BY Zenon DEF Logs!PollReply, Logs!None
    <2> QED
      BY <1>0, <2>1, Zenon DEF LogState
  <1>3. OneMore' /\ AtCursor'
    BY <1>1, <1>2, MoreAnswered, Zenon
  <1>4. Ordered'
    BY <1>0, <1>1, Zenon DEF Ordered
  <1>5. ASSUME Settled', ~logView'.stale PROVE Seamless'
    <2>1. Settled /\ ~logView.stale /\ c.filter = logView.filter
      BY <1>0, <1>1, <1>2, <1>5, CallAnswered, Zenon
    <2>2. Seamless
      BY <2>1, Zenon DEF GapInv
    <2>3. F' = F
      BY <1>1, <1>2, Zenon DEF Logs!Matching
    <2>4. CASE logView'.entries = logView.entries
      <3>1. Newer' = Newer
        BY <1>2, <2>3, <2>4, Zenon DEF Newer
      <3> QED
        BY <1>2, <2>2, <2>3, <2>4, <3>1, Zenon DEF Seamless
    <2>5. ASSUME NEW page \in Logs!Query(logView.filter, 0, TailSize),
                 logView'.entries = logView.entries \cup page
          PROVE  Seamless'
      <3>1. /\ logView.entries \subseteq F /\ (\A id \in F : id \in Nat)
            /\ IsFiniteSet(Newer) /\ Cardinality(Newer) \in Nat
        BY <1>0, <2>1, Shown, Zenon
      <3>2. page \subseteq F
        BY <1>0, Sizes, PageIn, Zenon
      <3>3. Newer \in SUBSET F /\ \A u \in Newer, id \in F \ Newer : id < u
        <4>1. Newer \in SUBSET F
          BY Zenon DEF Newer
        <4>2. ASSUME NEW u \in Newer, NEW id \in F \ Newer PROVE id < u
          <5>1. PICK e \in logView.entries : ~(id > e)
            BY Zenon DEF Newer
          <5>2. u > e
            BY Zenon DEF Newer
          <5>3. u \in Nat /\ id \in Nat /\ e \in Nat
            BY <3>1, <4>1, Zenon
          <5> QED
            BY <5>1, <5>2, <5>3, SMTT(30)
        <4> QED
          BY <4>1, <4>2, Zenon
      <3>4. Newer \subseteq page
        <4>1. Cardinality(Newer) <= TailSize
          BY <2>2, Zenon DEF Seamless
        <4> QED
          BY <1>0, <3>3, <4>1, Sizes, PageHasNewest DEF Ordered
      <3> HIDE DEF F
      <3>5. Newer' = {}
        <4> SUFFICES ASSUME NEW id \in F, \A e \in logView.entries \cup page : id > e PROVE FALSE
          BY <1>2, <2>3, <2>5, Zenon DEF Newer, F
        <4>1. id \in Newer
          BY Zenon DEF Newer, F
        <4>2. id > id /\ id \in Nat
          BY <3>1, <3>4, <4>1, Zenon
        <4> QED
          BY <4>2
      <3>6. Cardinality(Newer') <= TailSize
        BY <3>5, FS_EmptySet, Sizes
      <3>7. ASSUME NEW id \in F, NEW e \in logView.entries \cup page, id < e, id >= logView.olderCursor
            PROVE  id \in logView.entries \cup page
        <4>1. CASE id \in Newer
          BY <3>4, <4>1
        <4>2. CASE id \notin Newer
          <5>1. PICK x \in logView.entries : ~(id > x)
            BY <4>2, Zenon DEF Newer, F
          <5>2. id = x \/ id < x
            BY <3>1, <5>1
          <5> QED
            BY <2>2, <3>7, <5>2, Zenon DEF Seamless, F
        <4> QED
          BY <4>1, <4>2, Zenon
      <3> QED
        BY <1>2, <2>3, <2>5, <3>6, <3>7, Zenon DEF Seamless, F
    <2> QED
      BY <1>2, <2>1, <2>4, <2>5, Zenon
  <1> QED
    BY <1>3, <1>4, <1>5, Zenon DEF GapInv
\* The answer of "Load older" joins the list at the cursor.
LEMMA MoreSeamless ==
    ASSUME GapInv, MatchInv', Logs!MoreReply
    PROVE  GapInv'
  <1> DEFINE c == Head(logQueue)
             F == Logs!Matching(logView.filter, 0)
  <1>0. LogTypes /\ logView \in LogState /\ MatchInv /\ Ordered
    BY Zenon DEF GapInv, MatchInv, LogTypes
  <1>1. logQueue # <<>> /\ c.op = "more" /\ logQueue' = Tail(logQueue) /\ logRows' = logRows
    BY Zenon DEF Logs!MoreReply, Logs!Answers
  <1>2. /\ logView'.filter = logView.filter /\ logView'.timer = logView.timer
        /\ logView'.stale = logView.stale
        /\ \/ logView'.entries = logView.entries /\ logView'.olderCursor = logView.olderCursor
           \/ \E page \in Logs!Query(c.filter, c.before, PageSize) :
                /\ logView'.entries = logView.entries \cup page
                /\ logView'.olderCursor = Logs!NextBefore(page, PageSize)
    <2>1. \/ logView' = [logView EXCEPT !.loadingMore = FALSE]
          \/ \E page \in Logs!Query(c.filter, c.before, PageSize) :
               logView' = [logView EXCEPT !.entries = @ \cup page, !.loadingMore = FALSE,
                                          !.olderCursor = Logs!NextBefore(page, PageSize)]
      BY Zenon DEF Logs!MoreReply
    <2>2. CASE logView' = [logView EXCEPT !.loadingMore = FALSE]
      BY <1>0, <2>2, Zenon DEF LogState
    <2>3. ASSUME NEW page \in Logs!Query(c.filter, c.before, PageSize),
                 logView' = [logView EXCEPT !.entries = @ \cup page, !.loadingMore = FALSE,
                                            !.olderCursor = Logs!NextBefore(page, PageSize)]
          PROVE  /\ logView'.filter = logView.filter /\ logView'.timer = logView.timer
                 /\ logView'.stale = logView.stale /\ logView'.entries = logView.entries \cup page
                 /\ logView'.olderCursor = Logs!NextBefore(page, PageSize)
      BY <1>0, <2>3, Zenon DEF LogState
    <2> QED
      BY <2>1, <2>2, <2>3, Zenon
  <1>3. OneMore' /\ AtCursor'
    BY <1>1, <1>2, MoreAnswered, Zenon
  <1>4. Ordered'
    BY <1>0, <1>1, Zenon DEF Ordered
  <1>5. ASSUME Settled', ~logView'.stale PROVE Seamless'
    <2>1. Settled /\ ~logView.stale /\ c.filter = logView.filter
      BY <1>0, <1>1, <1>2, <1>5, CallAnswered, Zenon
    <2>2. Seamless
      BY <2>1, Zenon DEF GapInv
    <2>3. F' = F
      BY <1>1, <1>2, Zenon DEF Logs!Matching
    <2>4. CASE logView'.entries = logView.entries /\ logView'.olderCursor = logView.olderCursor
      <3>1. Newer' = Newer
        BY <1>2, <2>3, <2>4, Zenon DEF Newer
      <3> QED
        BY <1>2, <2>2, <2>3, <2>4, <3>1, Zenon DEF Seamless
    <2>5. c.before = logView.olderCursor /\ logView.olderCursor \in Nat
      <3>1. c = logQueue[1] /\ 1 \in 1 .. Len(logQueue)
        BY <1>0, <1>1 DEF LogTypes
      <3>2. c.before = logView.olderCursor
        BY <1>1, <2>1, <3>1, Zenon DEF GapInv, AtCursor
      <3>3. logView.olderCursor \in Nat
        BY <1>0, Zenon DEF LogState
      <3> QED
        BY <3>2, <3>3, Zenon
    <2>6. ASSUME NEW page \in Logs!Query(logView.filter, logView.olderCursor, PageSize),
                 logView'.entries = logView.entries \cup page,
                 logView'.olderCursor = Logs!NextBefore(page, PageSize)
          PROVE  Seamless'
      <3> DEFINE B == Logs!Matching(logView.filter, logView.olderCursor)
      <3>1. /\ logView.entries \subseteq F /\ IsFiniteSet(Newer) /\ Cardinality(Newer) \in Nat
            /\ \A id \in F : id \in Nat /\ id \in 1 .. Len(logRows)
        BY <1>0, <2>1, Shown, Zenon
      <3>2. page \subseteq B /\ B \subseteq F /\ logView'.olderCursor \in Nat
        <4>1. page \subseteq B /\ B \subseteq F
          BY <1>0, <2>5, Sizes, PageMatches, Zenon
        <4>2. logView'.olderCursor \in Nat
          BY Zenon DEF MatchInv, LogTypes, LogState
        <4> QED
          BY <4>1, <4>2, Zenon
      <3>3. \A id \in B \ page : id < logView'.olderCursor
        BY <1>0, <2>5, <2>6, Sizes, PageHasNewest DEF Ordered
      <3>4. \A id \in F : \/ id \in B /\ (logView.olderCursor = 0 \/ id < logView.olderCursor)
                          \/ id \notin B /\ id >= logView.olderCursor /\ logView.olderCursor # 0
        <4>1. ASSUME NEW id \in F
              PROVE  id \in B <=> (logView.olderCursor = 0 \/ id < logView.olderCursor)
          <5>1. logRows[id].ts = id
            BY <1>0, <3>1, Zenon DEF Ordered
          <5>2. id \in DOMAIN logRows /\ logRows[id].kind \in logView.filter
            BY Zenon DEF Logs!Matching
          <5> QED
            BY <5>1, <5>2, Zenon DEF Logs!Matching, Logs!None
        <4> HIDE DEF B, F
        <4> QED
          BY <2>5, <3>1, <4>1
      <3> HIDE DEF B, F
      <3>5. Newer' \subseteq Newer
        BY <1>2, <2>3, <2>6, Zenon DEF Newer, F
      <3>6. Cardinality(Newer') <= TailSize
        <4>1. Cardinality(Newer') <= Cardinality(Newer) /\ Cardinality(Newer') \in Nat
          BY <3>1, <3>5, FS_Subset, FS_CardinalityType, Zenon
        <4>2. Cardinality(Newer) <= TailSize
          BY <2>2, Zenon DEF Seamless
        <4> QED
          BY <3>1, <4>1, <4>2, Sizes
      <3>7. ASSUME NEW id \in F, NEW e \in logView.entries \cup page, id < e, id >= logView'.olderCursor
            PROVE  id \in logView.entries \cup page
        <4>1. CASE id \in B
          BY <3>1, <3>2, <3>3, <3>7, <4>1
        <4>2. CASE id \notin B
          <5>1. id >= logView.olderCursor /\ logView.olderCursor # 0
            BY <3>4, <4>2, Zenon
          <5>2. e \in logView.entries
            BY <2>5, <3>1, <3>2, <3>4, <3>7, <5>1
          <5> QED
            BY <2>2, <3>7, <5>1, <5>2, Zenon DEF Seamless, F
        <4> QED
          BY <4>1, <4>2, Zenon
      <3> QED
        BY <1>2, <2>3, <2>6, <3>6, <3>7, Zenon DEF Seamless, F
    <2> QED
      BY <1>2, <2>1, <2>4, <2>5, <2>6, Zenon
  <1> QED
    BY <1>3, <1>4, <1>5, Zenon DEF GapInv

\* The list of the logs view has no hole between the cursor of "Load older" and the
\* newest row it shows, once every answer is in (useLogStream's merge of polls and
\* older pages with the service's ORDER BY and LIMIT): for any page sizes of which
\* that of the poll is not the larger, any rows, filters, failures and clicks, when no
\* burst outruns a poll, no "Load older" races a new filter and no timestamps tie.
\* LogView's comment on Allowed names the code that leaves those three open.
THEOREM ListHasNoGap == ASSUME Allowed = {} PROVE Logs!Spec => []NoGap
  <1>1. Logs!Init => GapInv
    <2> SUFFICES ASSUME Logs!Init PROVE GapInv
      OBVIOUS
    <2>1. logRows = <<>> /\ logQueue = <<>> /\ logView.timer /\ MatchInv
      BY LogInit, Zenon
    <2>2. ~Settled
      BY <2>1, Zenon DEF Settled
    <2>3. 1 .. Len(logRows) = {} /\ 1 .. Len(logQueue) = {}
      BY <2>1
    <2> QED
      BY <2>1, <2>2, <2>3, Zenon DEF GapInv, Ordered, OneMore, AtCursor
  <1>2. GapInv /\ [Logs!Next]_Logs!vars => GapInv'
    <2> SUFFICES ASSUME GapInv, [Logs!Next]_Logs!vars PROVE GapInv'
      OBVIOUS
    <2>1. MatchInv'
      BY MatchStep, Zenon DEF GapInv
    <2>2. CASE UNCHANGED Logs!vars
      <3>1. logView' = logView /\ logQueue' = logQueue /\ logRows' = logRows
        BY <2>2, Zenon DEF Logs!vars
      <3>2. Newer' = Newer /\ (Settled' <=> Settled)
        BY <3>1, Zenon DEF Newer, Logs!Matching, Settled, LoadAfter
      <3> QED
        BY <2>1, <3>1, <3>2, ZenonT(30)
        DEF GapInv, Ordered, OneMore, AtCursor, Seamless, Logs!Matching
    <2> QED
      BY <2>1, <2>2, InsertSeamless, SendSeamless, ReplaceSeamless, PollSeamless, MoreSeamless,
         Zenon
      DEF Logs!Next
  <1>3. GapInv => NoGap
    <2> SUFFICES ASSUME GapInv, Logs!Quiet, NEW id \in Logs!Matching(logView.filter, 0),
                        logRows[id].ts < Logs!NewestShown, logRows[id].ts >= logView.olderCursor
                 PROVE  id \in logView.entries
      BY Zenon DEF NoGap, Logs!NoGap, Logs!None
    <2>1. Settled /\ ~logView.stale /\ MatchInv /\ Ordered /\ Seamless
      <3>1. ~LoadAfter(0)
        BY DEF Logs!Quiet, LoadAfter
      <3> QED
        BY <3>1, Zenon DEF Logs!Quiet, Settled, GapInv
    <2>2. id \in Nat /\ id > 0 /\ logRows[id].ts = id
      BY <2>1, Shown, Zenon DEF Ordered
    <2>3. Logs!NewestShown \in logView.entries /\ id < Logs!NewestShown
      BY <2>1, <2>2, NewestIs
    <2> QED
      BY <2>1, <2>2, <2>3, Zenon DEF Seamless
  <1> QED
    BY <1>1, <1>2, <1>3, PTL DEF Logs!Spec
=============================================================================
