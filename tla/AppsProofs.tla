---------------------------- MODULE AppsProofs ----------------------------
(***************************************************************************)
(* Studio and Uthereal.  For any rows, ratings and interleavings of the    *)
(* three processes that share a file of rows: what a human has rated is    *)
(* kept, and the loss takes it in.  For any clients, trainings and sizes   *)
(* of the queues: a client of a stream of events is told its training, and *)
(* to its end.  For any commands on a run directory, killed or not: what   *)
(* its files say of a run can be replayed, and verify shows what fix did.  *)
(***************************************************************************)
EXTENDS TrainingLauncher, JobFile, Uthereal, SeqLemmas, FiniteSetTheorems

Row == [id : RowId, rating : Rating \cup {Unrated}]
Ratings == [RowId -> Rating \cup {Unrated}]

JobType ==
  /\ file \in Seq(Row) /\ mtime \in Nat
  /\ saver \in [on : BOOLEAN, rows : Seq(Row), row : Nat, rating : Rating \cup {Unrated}]
  /\ loader \in [at : {"none", "stat", "read"}, mtime : Nat, byId : Ratings]
  /\ cache \in [byId : Ratings, mtime : Nat]
  /\ saved \in Ratings

\* The first row of an id holds the rating saved last, and an id without a row has none.
Rates(rows) ==
  \A id \in RowId :
    IF Positions(rows, id) = {} THEN saved[id] = Unrated
    ELSE rows[First(Positions(rows, id))].rating = saved[id]

\* The ratings as the loss reads them are those saved last.
Current(byId) ==
  /\ byId = ById
  /\ \A id \in RowId : Cardinality(Positions(file, id)) = 1 => byId[id] = saved[id]

\* A save under way has read rows that are up to date, and rates the first of an id.
SaverOK ==
  saver.on => /\ Rates(saver.rows) /\ saver.row \in 1 .. Len(saver.rows)
              /\ saver.row = First(Positions(saver.rows, saver.rows[saver.row].id))

\* What was read after a stamp is current for as long as the stamp is.
LoaderOK ==
  /\ loader.mtime <= mtime /\ cache.mtime <= mtime
  /\ loader.at = "read" /\ loader.mtime = mtime => Current(loader.byId)
  /\ cache.mtime = mtime => Current(cache.byId)

JobInv == JobType /\ Rates(file) /\ SaverOK /\ LoaderOK

-----------------------------------------------------------------------------
(* Rows of an id *)

LEMMA FirstOf ==
  ASSUME NEW K, K \subseteq Nat, K # {}
  PROVE  First(K) \in K /\ \A j \in K : First(K) <= j
<1>1. PICK k \in K : \A j \in K : k <= j
  BY NatMin
<1>2. QED
  BY <1>1 DEF First

LEMMA FirstIs ==
  ASSUME NEW K, K \subseteq Nat, NEW k \in K, \A j \in K : k <= j
  PROVE  First(K) = k
<1>1. First(K) \in K /\ First(K) <= k
  BY FirstOf
<1>2. k <= First(K) /\ k \in Nat /\ First(K) \in Nat
  BY <1>1
<1>3. QED
  BY <1>1, <1>2

LEMMA NewestOf ==
  ASSUME NEW n \in Nat, NEW K, K \subseteq 1 .. n, K # {}
  PROVE  Newest(K) \in K
<1>1. PICK k \in K : \A j \in K : k >= j
  BY BoundedMax
<1>2. QED
  BY <1>1 DEF Newest

LEMMA RowsOf ==
  ASSUME NEW rows \in Seq(Row), NEW id
  PROVE  /\ Positions(rows, id) \subseteq 1 .. Len(rows) /\ Positions(rows, id) \subseteq Nat
         /\ Len(rows) \in Nat
         /\ \A k \in Positions(rows, id) : rows[k].id = id
         /\ \A k \in 1 .. Len(rows) : rows[k].id = id => k \in Positions(rows, id)
  BY DEF Positions

\* A row of an id that is the only one is its first and its newest.
LEMMA OnlyRow ==
  ASSUME NEW rows \in Seq(Row), NEW id, Cardinality(Positions(rows, id)) = 1
  PROVE  /\ Positions(rows, id) # {}
         /\ First(Positions(rows, id)) = Newest(Positions(rows, id))
<1> DEFINE K == Positions(rows, id)
<1>1. K \subseteq 1 .. Len(rows) /\ K \subseteq Nat /\ Len(rows) \in Nat
  BY RowsOf
<1> HIDE DEF K
<1>2. IsFiniteSet(K)
  <2>1. IsFiniteSet(1 .. Len(rows))
    BY <1>1, FS_Interval
  <2>2. QED
    BY <1>1, <2>1, FS_Subset
<1>3. PICK x : K = {x}
  <2>1. Cardinality(K) = 1
    BY DEF K
  <2>2. QED
    BY <1>2, <2>1, FS_Singleton
<1>4. First(K) = x /\ Newest(K) = x
  <2>1. x \in Nat /\ x <= x
    BY <1>1, <1>3
  <2>2. QED
    BY <1>3, <2>1 DEF First, Newest
<1>5. QED
  BY <1>3, <1>4 DEF K

\* A row that is appended is not the first of its id, unless it is the only one.
LEMMA AppendedRow ==
  ASSUME JobInv, NEW id \in RowId
  PROVE  LET rows == Append(file, [id |-> id, rating |-> Unrated])
         IN  rows \in Seq(Row) /\ Rates(rows)
<1> DEFINE row == [id |-> id, rating |-> Unrated]
           rows == Append(file, row)
           n == Len(file) + 1
<1>1. file \in Seq(Row) /\ row \in Row
  BY DEF JobInv, JobType, Row
<1>2. row.id = id /\ row.rating = Unrated
  OBVIOUS
<1>3. /\ rows \in Seq(Row) /\ Len(rows) = n /\ rows[n] = row /\ n \in Nat /\ Len(file) \in Nat
      /\ \A k \in 1 .. Len(file) : rows[k] = file[k]
  BY <1>1
<1> HIDE DEF row, rows, n
<1>4. ASSUME NEW i \in RowId
      PROVE  IF Positions(rows, i) = {} THEN saved[i] = Unrated
             ELSE rows[First(Positions(rows, i))].rating = saved[i]
  <2> DEFINE K == Positions(file, i)
             L == Positions(rows, i)
  <2>1. K \subseteq 1 .. Len(file) /\ K \subseteq Nat /\ L \subseteq Nat
    BY <1>1, <1>3, RowsOf
  <2>2. L = K \cup (IF i = id THEN {n} ELSE {})
    <3>0. DOMAIN file = 1 .. Len(file) /\ DOMAIN rows = 1 .. n /\ n \in 1 .. n
      BY <1>1, <1>3 DEF n
    <3>1. \A k \in 1 .. Len(file) : k \in L <=> k \in K
      <4>1. 1 .. Len(file) \subseteq 1 .. n
        BY <1>3 DEF n
      <4>2. QED
        BY <1>3, <3>0, <4>1, Zenon DEF Positions
    <3>2. n \in L <=> i = id
      BY <1>2, <1>3, <3>0, Zenon DEF Positions
    <3>3. L \subseteq 1 .. n /\ \A k \in 1 .. n : k = n \/ k \in 1 .. Len(file)
      BY <1>3, RowsOf DEF n
    <3>4. n \notin K
      BY <1>3, <2>1 DEF n
    <3> HIDE DEF K, L
    <3>5. QED
      BY <2>1, <3>1, <3>2, <3>3, <3>4
  <2>3. IF K = {} THEN saved[i] = Unrated ELSE file[First(K)].rating = saved[i]
    BY DEF JobInv, Rates
  <2> HIDE DEF K, L
  <2>4. CASE K = {}
    <3>1. CASE i = id
      <4>1. L = {n} /\ First(L) = n
        <5>1. L = {n}
          BY <2>2, <2>4, <3>1
        <5>2. QED
          <6>1. n \in L /\ L \subseteq Nat /\ \A j \in L : n <= j
            BY <1>3, <5>1
          <6>2. QED
            BY <5>1, <6>1, FirstIs
      <4>2. QED
        BY <1>2, <1>3, <2>3, <2>4, <4>1 DEF L
    <3>2. CASE i # id
      BY <2>2, <2>3, <2>4, <3>2 DEF L
    <3>3. QED
      BY <3>1, <3>2
  <2>5. CASE K # {}
    <3>1. First(K) \in K /\ \A j \in K : First(K) <= j
      BY <2>1, <2>5, FirstOf
    <3>2. First(K) \in 1 .. Len(file) /\ First(K) \in L /\ First(K) <= n
      BY <1>3, <2>1, <2>2, <3>1 DEF n
    <3>3. First(L) = First(K)
      <4>1. \A j \in L : First(K) <= j
        BY <2>2, <3>1, <3>2
      <4>2. QED
        BY <2>1, <3>2, <4>1, FirstIs
    <3>4. rows[First(L)] = file[First(K)] /\ L # {}
      BY <1>3, <3>2, <3>3
    <3>5. QED
      BY <2>3, <2>5, <3>4 DEF L
  <2>6. QED
    BY <2>4, <2>5
<1>5. QED
  BY <1>3, <1>4 DEF Rates, rows, row

Rate(rows, r, rating) == [rows EXCEPT ![r].rating = rating]

\* A rating that replaces the one of a row leaves the others.
LEMMA RatedRows ==
  ASSUME NEW rows \in Seq(Row), NEW r \in 1 .. Len(rows), NEW rating \in Rating \cup {Unrated}
  PROVE  LET new == Rate(rows, r, rating)
         IN  /\ new \in Seq(Row) /\ new[r].rating = rating
             /\ \A id : Positions(new, id) = Positions(rows, id)
             /\ \A k \in 1 .. Len(rows) : k # r => new[k] = rows[k]
<1> DEFINE row == [rows[r] EXCEPT !.rating = rating]
           new == Rate(rows, r, rating)
<1>1. DOMAIN rows = 1 .. Len(rows) /\ rows[r] \in Row /\ Len(rows) \in Nat
  OBVIOUS
<1>2. row \in Row /\ row.id = rows[r].id /\ row.rating = rating
  BY <1>1 DEF Row
<1>3. new = [rows EXCEPT ![r] = row]
  BY DEF Rate
<1> HIDE DEF new, row
<1>4. /\ new \in Seq(Row) /\ DOMAIN new = 1 .. Len(rows) /\ new[r] = row
      /\ \A k \in 1 .. Len(rows) : k # r => new[k] = rows[k]
  <2>1. rows \in [1 .. Len(rows) -> Row]
    OBVIOUS
  <2>2. new \in [1 .. Len(rows) -> Row] /\ new[r] = row /\ \A k \in 1 .. Len(rows) : k # r => new[k] = rows[k]
    BY <1>2, <1>3, <2>1
  <2>3. QED
    BY <1>1, <2>2
<1>5. \A k \in 1 .. Len(rows) : new[k].id = rows[k].id
  BY <1>2, <1>4
<1>6. \A id : Positions(new, id) = Positions(rows, id)
  BY <1>1, <1>4, <1>5 DEF Positions
<1>7. QED
  BY <1>2, <1>4, <1>6 DEF new

-----------------------------------------------------------------------------
(* Each step keeps the invariant *)

\* The rows a loader finds change with the file only.
LEMMA SameRows == ASSUME file' = file PROVE ById' = ById
BY DEF ById

LEMMA JobInitInv == JobInit => JobInv
<1> SUFFICES ASSUME JobInit PROVE JobInv
  OBVIOUS
<1>1. PICK n \in 0 .. 1 : file \in [1 .. n -> [id : RowId, rating : {Unrated}]]
  BY DEF JobInit
<1>2. file \in Seq(Row) /\ DOMAIN file = 1 .. n /\ \A k \in 1 .. n : file[k].rating = Unrated
  <2>1. [id : RowId, rating : {Unrated}] \subseteq Row
    BY DEF Row
  <2>2. file \in [1 .. n -> Row]
    BY <1>1, <2>1
  <2>3. \A k \in 1 .. n : file[k] \in [id : RowId, rating : {Unrated}]
    BY <1>1
  <2>4. QED
    BY <1>1, <2>2, <2>3
<1>3. NoRating \in Ratings /\ \A id \in RowId : NoRating[id] = Unrated
  BY DEF NoRating, Ratings
<1>4. /\ mtime = 1 /\ saved = NoRating /\ saver = NoSave /\ loader = NoLoad
      /\ cache = [byId |-> NoRating, mtime |-> 0]
  BY DEF JobInit
<1>5. JobType
  <2>1. saver \in [on : BOOLEAN, rows : Seq(Row), row : Nat, rating : Rating \cup {Unrated}]
    BY <1>4, EmptySeq DEF NoSave
  <2>2. loader \in [at : {"none", "stat", "read"}, mtime : Nat, byId : Ratings]
    BY <1>3, <1>4 DEF NoLoad
  <2>3. cache \in [byId : Ratings, mtime : Nat] /\ saved \in Ratings /\ mtime \in Nat
    BY <1>3, <1>4
  <2>4. QED
    BY <1>2, <2>1, <2>2, <2>3 DEF JobType
<1>6. Rates(file)
  <2>1. SUFFICES ASSUME NEW id \in RowId, Positions(file, id) # {}
                 PROVE  file[First(Positions(file, id))].rating = Unrated
    BY <1>3, <1>4 DEF Rates
  <2>2. First(Positions(file, id)) \in DOMAIN file
    <3>1. Positions(file, id) \subseteq Nat /\ Positions(file, id) \subseteq DOMAIN file
      BY <1>2, RowsOf DEF Positions
    <3>2. QED
      BY <2>1, <3>1, FirstOf
  <2>3. QED
    BY <1>2, <2>2
<1>7. SaverOK /\ LoaderOK
  BY <1>4 DEF SaverOK, LoaderOK, NoSave, NoLoad
<1>8. QED
  BY <1>5, <1>6, <1>7 DEF JobInv

LEMMA AppendKeeps == ASSUME JobInv, NEW id \in RowId, AppendRow(id) PROVE JobInv'
<1>1. /\ file' = Append(file, [id |-> id, rating |-> Unrated]) /\ mtime' = mtime + 1 /\ mtime \in Nat
      /\ UNCHANGED <<saver, loader, cache, saved>>
  BY DEF AppendRow, JobInv, JobType
<1>2. file' \in Seq(Row) /\ Rates(file)'
  BY <1>1, AppendedRow DEF Rates
<1>3. JobType'
  BY <1>1, <1>2 DEF JobInv, JobType
<1>4. SaverOK'
  BY <1>1 DEF JobInv, SaverOK, Rates
<1>5. LoaderOK'
  <2>1. loader.mtime \in Nat /\ cache.mtime \in Nat /\ loader.mtime <= mtime /\ cache.mtime <= mtime
    BY DEF JobInv, JobType, LoaderOK
  <2>2. QED
    BY <1>1, <2>1 DEF LoaderOK
<1>6. QED
  BY <1>2, <1>3, <1>4, <1>5 DEF JobInv

LEMMA SaveReadKeeps ==
  ASSUME JobInv, NEW id \in RowId, NEW rating \in Rating \cup {Unrated}, SaveRead(id, rating)
  PROVE  JobInv'
<1> DEFINE r == First(Positions(file, id))
<1>1. /\ saver' = [on |-> TRUE, rows |-> file, row |-> r, rating |-> rating]
      /\ UNCHANGED <<file, mtime, loader, cache, saved>> /\ Positions(file, id) # {}
  BY DEF SaveRead, SaveTarget
<1>2. r \in Positions(file, id) /\ file \in Seq(Row)
  <2>1. file \in Seq(Row)
    BY DEF JobInv, JobType
  <2>2. QED
    BY <1>1, <2>1, RowsOf, FirstOf
<1>3. r \in 1 .. Len(file) /\ r \in Nat /\ file[r].id = id
  BY <1>2, RowsOf
<1>4. r = First(Positions(file, file[r].id))
  BY <1>3
<1> HIDE DEF r
<1>5. JobType'
  BY <1>1, <1>2, <1>3 DEF JobInv, JobType
<1>6. Rates(file)' /\ LoaderOK'
  BY <1>1, SameRows DEF JobInv, Rates, LoaderOK, Current
<1>7. SaverOK'
  BY <1>1, <1>3, <1>4 DEF JobInv, SaverOK, Rates
<1>8. QED
  BY <1>5, <1>6, <1>7 DEF JobInv

LEMMA SaveReplaceKeeps == JobInv /\ SaveReplace => JobInv'
<1> SUFFICES ASSUME JobInv, SaveReplace PROVE JobInv'
  OBVIOUS
<1> DEFINE rows == saver.rows
           r == saver.row
           rating == saver.rating
           target == rows[r].id
<1>1. /\ saver.on /\ rows \in Seq(Row) /\ r \in 1 .. Len(rows) /\ rating \in Rating \cup {Unrated}
      /\ r = First(Positions(rows, target)) /\ Rates(rows)
  BY DEF SaveReplace, JobInv, JobType, SaverOK
<1>2. /\ file' = [rows EXCEPT ![r].rating = rating] /\ mtime' = mtime + 1 /\ mtime \in Nat
      /\ saved' = [saved EXCEPT ![target] = rating] /\ saver' = NoSave
      /\ UNCHANGED <<loader, cache>>
  BY DEF SaveReplace, Rated, JobInv, JobType
<1>3. /\ file' \in Seq(Row) /\ file'[r].rating = rating
      /\ \A id : Positions(file', id) = Positions(rows, id)
      /\ \A k \in 1 .. Len(rows) : k # r => file'[k] = rows[k]
  <2> HIDE DEF rows, r, rating
  <2> DEFINE new == Rate(rows, r, rating)
  <2>1. /\ new \in Seq(Row) /\ new[r].rating = rating
        /\ \A id : Positions(new, id) = Positions(rows, id)
        /\ \A k \in 1 .. Len(rows) : k # r => new[k] = rows[k]
    BY <1>1, RatedRows
  <2>2. file' = new
    BY <1>2 DEF Rate
  <2> HIDE DEF new
  <2>3. QED
    BY <2>1, <2>2
<1>4. target \in RowId
  <2>1. rows[r] \in Row
    BY <1>1
  <2>2. QED
    BY <2>1 DEF Row
<1>5. saved' \in Ratings /\ saved'[target] = rating /\ \A id \in RowId : id # target => saved'[id] = saved[id]
  BY <1>1, <1>2, <1>4 DEF JobInv, JobType, Ratings
<1> HIDE DEF rows, r, rating
<1>6. ASSUME NEW id \in RowId
      PROVE  IF Positions(file', id) = {} THEN saved'[id] = Unrated
             ELSE file'[First(Positions(file', id))].rating = saved'[id]
  <2> DEFINE K == Positions(rows, id)
  <2>1. K \subseteq 1 .. Len(rows) /\ K \subseteq Nat /\ (\A k \in K : rows[k].id = id) /\ Positions(file', id) = K
    BY <1>1, <1>3, RowsOf
  <2>2. CASE id = target
    <3>1. r \in K
      BY <1>1, <2>2, RowsOf
    <3>2. First(K) = r
      BY <1>1, <2>2
    <3>3. QED
      BY <1>3, <1>5, <2>1, <2>2, <3>1, <3>2
  <2>3. CASE id # target
    <3>1. IF K = {} THEN saved[id] = Unrated ELSE rows[First(K)].rating = saved[id]
      BY <1>1 DEF Rates
    <3>2. ASSUME K # {} PROVE file'[First(K)] = rows[First(K)]
      <4>1. First(K) \in K
        BY <2>1, <3>2, FirstOf
      <4>2. First(K) \in 1 .. Len(rows) /\ First(K) # r
        BY <2>1, <2>3, <4>1
      <4>3. QED
        BY <1>3, <4>2
    <3> HIDE DEF K
    <3>3. QED
      BY <1>5, <2>1, <2>3, <3>1, <3>2
  <2>4. QED
    BY <2>2, <2>3
<1>7. Rates(file)'
  BY <1>6 DEF Rates
<1>8. saver' \in [on : BOOLEAN, rows : Seq(Row), row : Nat, rating : Rating \cup {Unrated}] /\ ~saver'.on
  BY <1>2, EmptySeq DEF NoSave
<1>9. JobType'
  BY <1>2, <1>3, <1>5, <1>8 DEF JobInv, JobType
<1>10. LoaderOK'
  <2>1. loader.mtime \in Nat /\ cache.mtime \in Nat /\ loader.mtime <= mtime /\ cache.mtime <= mtime
    BY DEF JobInv, JobType, LoaderOK
  <2>2. QED
    BY <1>2, <2>1 DEF LoaderOK
<1>11. QED
  BY <1>7, <1>8, <1>9, <1>10 DEF JobInv, SaverOK

LEMMA SaveFailsKeeps == JobInv /\ SaveFails => JobInv'
<1> SUFFICES ASSUME JobInv, SaveFails PROVE JobInv'
  OBVIOUS
<1>1. /\ UNCHANGED <<file, mtime, loader, cache, saved>> /\ ~saver'.on
      /\ saver' \in [on : BOOLEAN, rows : Seq(Row), row : Nat, rating : Rating \cup {Unrated}]
  BY EmptySeq DEF SaveFails, NoSave
<1>2. QED
  BY <1>1, SameRows DEF JobInv, JobType, Rates, SaverOK, LoaderOK, Current

\* What the loss reads of the file is current.
LEMMA ReadIsCurrent == JobInv => ById \in Ratings /\ Current(ById)
<1> SUFFICES ASSUME JobInv PROVE ById \in Ratings /\ Current(ById)
  OBVIOUS
<1>1. file \in Seq(Row)
  BY DEF JobInv, JobType
<1>2. ASSUME NEW id \in RowId
      PROVE  /\ ById[id] \in Rating \cup {Unrated}
             /\ Cardinality(Positions(file, id)) = 1 => ById[id] = saved[id]
  <2> DEFINE K == Positions(file, id)
  <2>1. K \subseteq 1 .. Len(file) /\ K \subseteq Nat
    BY <1>1, RowsOf
  <2>2. ById[id] = IF K = {} THEN Unrated ELSE file[Newest(K)].rating
    BY DEF ById
  <2>3. ASSUME K # {} PROVE Newest(K) \in K
    BY <1>1, <2>1, <2>3, NewestOf
  <2>4. ById[id] \in Rating \cup {Unrated}
    <3>1. \A k \in K : file[k].rating \in Rating \cup {Unrated}
      <4>1. \A k \in 1 .. Len(file) : file[k] \in Row
        BY <1>1
      <4>2. \A k \in K : file[k] \in Row
        BY <2>1, <4>1
      <4>3. QED
        BY <4>2 DEF Row
    <3>2. QED
      BY <2>2, <2>3, <3>1
  <2>5. ASSUME Cardinality(K) = 1 PROVE ById[id] = saved[id]
    <3>1. K # {} /\ First(K) = Newest(K)
      BY <1>1, <2>5, OnlyRow
    <3>2. file[First(K)].rating = saved[id]
      BY <3>1 DEF JobInv, Rates
    <3>3. QED
      BY <2>2, <3>1, <3>2
  <2>6. QED
    BY <2>4, <2>5
<1>3. ById \in Ratings
  BY <1>2 DEF ById, Ratings
<1>4. QED
  BY <1>2, <1>3 DEF Current

LEMMA LoadKeeps == JobInv /\ (LoadStat \/ LoadRead \/ LoadEnds) => JobInv'
<1> SUFFICES ASSUME JobInv, LoadStat \/ LoadRead \/ LoadEnds PROVE JobInv'
  OBVIOUS
<1>1. UNCHANGED <<file, mtime, saver, saved>>
  BY DEF LoadStat, LoadRead, LoadEnds
<1>2. Rates(file)' /\ SaverOK'
  BY <1>1 DEF JobInv, Rates, SaverOK
<1>3. NoRating \in Ratings
  BY DEF NoRating, Ratings
<1>4. mtime \in Nat /\ mtime <= mtime /\ 0 <= mtime
  BY DEF JobInv, JobType
<1>5. CASE LoadStat
  <2>1. loader' = [at |-> "stat", mtime |-> mtime, byId |-> NoRating] /\ cache' = cache
    BY <1>5 DEF LoadStat, NoLoad
  <2>2. JobType'
    BY <1>1, <1>3, <2>1 DEF JobInv, JobType
  <2>3. LoaderOK'
    BY <1>1, <1>4, <2>1, SameRows DEF JobInv, LoaderOK, Current
  <2>4. QED
    BY <1>2, <2>2, <2>3 DEF JobInv
<1>6. CASE LoadRead
  <2>1. loader' = [loader EXCEPT !.at = "read", !.byId = ById] /\ cache' = cache
    BY <1>6 DEF LoadRead
  <2>2. loader' \in [at : {"none", "stat", "read"}, mtime : Nat, byId : Ratings] /\ loader'.mtime = loader.mtime
        /\ loader'.byId = ById
    BY <2>1, ReadIsCurrent DEF JobInv, JobType
  <2>3. JobType'
    BY <1>1, <2>1, <2>2 DEF JobInv, JobType
  <2>4. LoaderOK'
    <3>1. Current(ById)
      BY ReadIsCurrent
    <3>2. QED
      BY <1>1, <2>1, <2>2, <3>1, SameRows DEF JobInv, LoaderOK, Current
  <2>5. QED
    BY <1>2, <2>3, <2>4 DEF JobInv
<1>7. CASE LoadEnds
  <2>1. /\ loader.at = "read" /\ cache' = [byId |-> loader.byId, mtime |-> loader.mtime]
        /\ loader' = [at |-> "none", mtime |-> 0, byId |-> NoRating]
    BY <1>7 DEF LoadEnds, Stamp, NoLoad
  <2>2. JobType'
    BY <1>1, <1>3, <2>1 DEF JobInv, JobType
  <2>3. LoaderOK'
    BY <1>1, <1>4, <2>1, SameRows DEF JobInv, LoaderOK, Current
  <2>4. QED
    BY <1>2, <2>2, <2>3 DEF JobInv
<1>8. QED
  BY <1>5, <1>6, <1>7

LEMMA JobStep == JobInv /\ [JobNext]_jobvars => JobInv'
<1> SUFFICES ASSUME JobInv, [JobNext]_jobvars PROVE JobInv'
  OBVIOUS
<1>1. CASE UNCHANGED jobvars
  BY <1>1, SameRows DEF jobvars, JobInv, JobType, Rates, SaverOK, LoaderOK, Current
<1>2. QED
  BY <1>1, AppendKeeps, SaveReadKeeps, SaveReplaceKeeps, SaveFailsKeeps, LoadKeeps DEF JobNext

LEMMA JobInvSound == JobInv => RatingsReachLoss
<1> SUFFICES ASSUME JobInv PROVE RatingKept /\ LossUpToDate
  BY DEF RatingsReachLoss
<1>1. RatingKept
  BY DEF JobInv, Rates, RatingKept
<1>2. LossUpToDate
  BY DEF JobInv, LoaderOK, Current, LossUpToDate
<1>3. QED
  BY <1>1, <1>2

\* A rating that was saved survives, in the first row of its id, the rows other processes
\* append and the ratings saved after it; a loss whose stamp is that of the file goes by the
\* last row of each id, and so by the rating saved last of an id that has one row.
THEOREM JobRatingsReachLoss == JobSpec => []RatingsReachLoss
<1>1. QED
  BY JobInitInv, JobStep, JobInvSound, PTL DEF JobSpec

-----------------------------------------------------------------------------
(* The newest part of a sequence *)

IsEndOf(q, s) == Len(q) <= Len(s) /\ \A i \in 1 .. Len(q) : q[i] = s[Len(s) - Len(q) + i]

LEMMA EndIsSubSeq ==
  ASSUME NEW S, NEW q \in Seq(S), NEW s \in Seq(S), IsEndOf(q, s)
  PROVE  q = SubSeq(s, Len(s) - Len(q) + 1, Len(s))
<1> DEFINE r == SubSeq(s, Len(s) - Len(q) + 1, Len(s))
<1>1. Len(q) \in Nat /\ Len(s) \in Nat /\ Len(q) <= Len(s)
  BY DEF IsEndOf
<1>2. r \in Seq(S) /\ Len(r) = Len(q) /\ \A i \in 1 .. Len(q) : r[i] = s[Len(s) - Len(q) + i]
  BY <1>1
<1> HIDE DEF r
<1>3. \A i \in 1 .. Len(q) : q[i] = r[i]
  BY <1>2 DEF IsEndOf
<1>4. q = r
  BY <1>2, <1>3, SeqEqual
<1>5. QED
  BY <1>4 DEF r

LEMMA EndGrows ==
  ASSUME NEW S, NEW q \in Seq(S), NEW s \in Seq(S), NEW e \in Seq(S), IsEndOf(q, s)
  PROVE  IsEndOf(q \o e, s \o e)
<1>1. /\ Len(q \o e) = Len(q) + Len(e) /\ Len(s \o e) = Len(s) + Len(e)
      /\ Len(q) \in Nat /\ Len(s) \in Nat /\ Len(e) \in Nat
  OBVIOUS
<1>2. /\ \A i \in 1 .. Len(q) : (q \o e)[i] = q[i]
      /\ \A i \in 1 .. Len(e) : (q \o e)[Len(q) + i] = e[i]
      /\ \A i \in 1 .. Len(s) : (s \o e)[i] = s[i]
      /\ \A i \in 1 .. Len(e) : (s \o e)[Len(s) + i] = e[i]
  OBVIOUS
<1>3. Len(q) <= Len(s) /\ \A i \in 1 .. Len(q) : q[i] = s[Len(s) - Len(q) + i]
  BY DEF IsEndOf
<1>4. ASSUME NEW i \in 1 .. Len(q) + Len(e)
      PROVE  (q \o e)[i] = (s \o e)[Len(s) - Len(q) + i]
  <2>1. CASE i \in 1 .. Len(q)
    <3>1. Len(s) - Len(q) + i \in 1 .. Len(s)
      BY <1>1, <1>3, <2>1
    <3>2. QED
      BY <1>2, <1>3, <2>1, <3>1
  <2>2. CASE i \notin 1 .. Len(q)
    <3>1. i - Len(q) \in 1 .. Len(e) /\ Len(q) + (i - Len(q)) = i /\ Len(s) + (i - Len(q)) = Len(s) - Len(q) + i
      BY <1>1, <2>2
    <3>2. QED
      BY <1>2, <3>1
  <2>3. QED
    BY <2>1, <2>2
<1>5. Len(s \o e) - Len(q \o e) = Len(s) - Len(q)
  BY <1>1
<1>6. QED
  BY <1>1, <1>3, <1>4, <1>5 DEF IsEndOf

\* What follows k elements of the end is an end, too.
LEMMA EndOfEnd ==
  ASSUME NEW S, NEW q \in Seq(S), NEW s \in Seq(S), IsEndOf(q, s), NEW k \in 0 .. Len(q)
  PROVE  LET r == SubSeq(q, k + 1, Len(q))
         IN  r \in Seq(S) /\ Len(r) = Len(q) - k /\ IsEndOf(r, s)
<1> DEFINE r == SubSeq(q, k + 1, Len(q))
<1>1. /\ r \in Seq(S) /\ Len(r) = Len(q) - k /\ Len(q) \in Nat /\ Len(s) \in Nat
      /\ \A i \in 1 .. Len(r) : r[i] = q[i + k]
  OBVIOUS
<1> HIDE DEF r
<1>2. Len(q) <= Len(s) /\ \A i \in 1 .. Len(q) : q[i] = s[Len(s) - Len(q) + i]
  BY DEF IsEndOf
<1>3. ASSUME NEW i \in 1 .. Len(r)
      PROVE  r[i] = s[Len(s) - Len(r) + i]
  <2>1. i + k \in 1 .. Len(q) /\ Len(s) - Len(q) + (i + k) = Len(s) - Len(r) + i
    BY <1>1
  <2>2. QED
    BY <1>1, <1>2, <2>1
<1>4. IsEndOf(r, s)
  BY <1>1, <1>2, <1>3 DEF IsEndOf
<1>5. QED
  BY <1>1, <1>4 DEF r

-----------------------------------------------------------------------------
(* Trainings and their streams *)

Emitted == [kind : {"started", "fit_start", "saved", "finished", "error"}, of : Nat]

LaunchType ==
  /\ trainer \in {"none", "new", "fitting", "done"} /\ rounds \in Nat
  /\ events \in Seq(Emitted) /\ log \in Seq(Emitted)
  /\ stream \in [Client -> {"off", "open", "over"}]
  /\ queue \in [Client -> Seq(Emitted)] /\ got \in [Client -> Seq(Emitted)]
  /\ base \in [Client -> [at : Nat, training : Nat]]

\* The first event of the last training, or the one it will have.
Recent == Len(log) - Len(events) + 1

\* The status holds the events of the last training, which are the newest of the log,
\* and few enough for a queue; a training that is over has said so last.
EventsKept ==
  /\ IsEndOf(events, log) /\ \A i \in 1 .. Len(events) : events[i].of = rounds
  /\ trainer = "none" => rounds = 0 /\ events = <<>> /\ log = <<>>
  /\ trainer = "new" => events = <<>>
  /\ trainer = "fitting" => Len(events) = 2
  /\ trainer = "done" => Len(events) \in 2 .. 4 /\ Ends(log[Len(log)].kind)
  /\ trainer # "none" => rounds >= 1

\* The training a client has joined: the first one, if there was none yet.
Joined(c) == IF base[c].training = 0 THEN 1 ELSE base[c].training
LastTraining == IF rounds = 0 THEN 1 ELSE rounds

EndedWithin(t, from, upto) == \E k \in from .. upto : log[k].of = t /\ Ends(log[k].kind)

\* From where a client has joined on, nothing of another training comes before the
\* end of the one it joined.
JoinOK(c) ==
  /\ base[c].at \in 1 .. Len(log) + 1 /\ base[c].training \in 0 .. rounds
  /\ Joined(c) = LastTraining => base[c].at = Recent
  /\ Joined(c) # LastTraining => EndedWithin(Joined(c), base[c].at, Len(log))
  /\ \A j \in base[c].at .. Len(log) : log[j].of # Joined(c) => EndedWithin(Joined(c), base[c].at, j - 1)

Due(c) == Len(log) + 1 - base[c].at

\* What a client has read, of which only the last may be an end, and what waits for it.
ReadOK(c) ==
  /\ stream[c] = "off" => got[c] = <<>>
  /\ stream[c] = "open" => \A i \in 1 .. Len(got[c]) : ~Ends(got[c][i].kind)
  /\ \A i \in 1 .. Len(got[c]) - 1 : ~Ends(got[c][i].kind)
  /\ ~Lapped(c) => /\ Len(got[c]) <= Due(c)
                   /\ \A i \in 1 .. Len(got[c]) : got[c][i] = log[base[c].at + i - 1]

QueueOK(c) ==
  stream[c] = "open" =>
    /\ Len(queue[c]) <= QueueMax /\ Len(queue[c]) <= Due(c) /\ IsEndOf(queue[c], log)
    /\ ~Lapped(c) => Len(got[c]) + Len(queue[c]) = Due(c)
    /\ trainer = "done" => queue[c] # <<>>

LaunchInv == LaunchType /\ EventsKept /\ \A c \in Client : JoinOK(c) /\ ReadOK(c) /\ QueueOK(c)

LEMMA LaunchInitInv == LaunchInit => LaunchInv
<1> SUFFICES ASSUME LaunchInit PROVE LaunchInv
  OBVIOUS
<1>1. /\ trainer = "none" /\ events = <<>> /\ rounds = 0 /\ log = <<>> /\ Len(events) = 0 /\ Len(log) = 0
      /\ stream = [c \in Client |-> "off"] /\ queue = [c \in Client |-> <<>>] /\ got = queue
      /\ base = [c \in Client |-> [at |-> 1, training |-> 0]]
  BY EmptySeq DEF LaunchInit
<1>2. LaunchType
  BY <1>1, EmptySeq DEF LaunchType
<1>3. EventsKept
  BY <1>1 DEF EventsKept, IsEndOf
<1>4. ASSUME NEW c \in Client PROVE JoinOK(c) /\ ReadOK(c) /\ QueueOK(c)
  <2>1. /\ base[c].at = 1 /\ base[c].training = 0 /\ stream[c] = "off" /\ got[c] = <<>> /\ Len(got[c]) = 0
    BY <1>1, EmptySeq
  <2>2. JoinOK(c)
    BY <1>1, <2>1 DEF JoinOK, Joined, LastTraining, Recent
  <2>3. QED
    BY <1>1, <2>1, <2>2 DEF ReadOK, QueueOK, Due
<1>5. QED
  BY <1>2, <1>3, <1>4 DEF LaunchInv

\* What _emit leaves in a queue: the newest events, as many as there is room for.
LEMMA PutNewest ==
  ASSUME NEW S, NEW q \in Seq(S), NEW s \in Seq(S), NEW e \in Seq(S), IsEndOf(q, s), Len(q) <= QueueMax
  PROVE  /\ Put(q, e) \in Seq(S) /\ IsEndOf(Put(q, e), s \o e)
         /\ Len(Put(q, e)) = IF Len(q) + Len(e) > QueueMax THEN QueueMax ELSE Len(q) + Len(e)
<1> DEFINE all == q \o e
           k == IF Len(all) > QueueMax THEN Len(all) - QueueMax ELSE 0
<1>1. /\ all \in Seq(S) /\ Len(all) = Len(q) + Len(e) /\ Len(all) \in Nat /\ QueueMax \in Nat /\ k \in 0 .. Len(all)
      /\ s \o e \in Seq(S)
  BY LauncherAssumption
<1>2. IsEndOf(all, s \o e)
  BY EndGrows
<1>3. Put(q, e) = SubSeq(all, k + 1, Len(all))
  BY <1>1 DEF Put
<1> HIDE DEF all
<1>4. /\ SubSeq(all, k + 1, Len(all)) \in Seq(S) /\ Len(SubSeq(all, k + 1, Len(all))) = Len(all) - k
      /\ IsEndOf(SubSeq(all, k + 1, Len(all)), s \o e)
  BY <1>1, <1>2, EndOfEnd
<1>5. Len(all) - k = IF Len(q) + Len(e) > QueueMax THEN QueueMax ELSE Len(q) + Len(e)
  BY <1>1
<1> HIDE DEF k
<1>6. QED
  BY <1>3, <1>4, <1>5

\* An emission of the training under way, which goes to the status and to every open stream.
LEMMA EmitKeeps ==
  ASSUME LaunchInv, NEW evs \in Seq(Emitted), Len(evs) >= 1, Len(events) + Len(evs) <= 4,
         \A i \in 1 .. Len(evs) : evs[i].of = rounds, rounds >= 1,
         Emit(evs), UNCHANGED <<rounds, stream, got, base>>,
         \/ trainer' = "fitting" /\ Len(events) + Len(evs) = 2
         \/ trainer' = "done" /\ Len(events) + Len(evs) >= 2 /\ Ends(evs[Len(evs)].kind)
  PROVE  LaunchInv'
<1> DEFINE n == Len(evs)
           m == Len(log)
<1>1. /\ events \in Seq(Emitted) /\ log \in Seq(Emitted) /\ queue \in [Client -> Seq(Emitted)]
      /\ got \in [Client -> Seq(Emitted)] /\ base \in [Client -> [at : Nat, training : Nat]] /\ rounds \in Nat
      /\ n \in Nat /\ m \in Nat /\ Len(events) \in Nat /\ stream \in [Client -> {"off", "open", "over"}]
  BY DEF LaunchInv, LaunchType
<1>2. /\ events' = events \o evs /\ log' = log \o evs /\ log' \in Seq(Emitted) /\ events' \in Seq(Emitted)
      /\ Len(log') = m + n /\ Len(events') = Len(events) + n
      /\ \A i \in 1 .. m : log'[i] = log[i]
      /\ \A i \in 1 .. n : log'[m + i] = evs[i]
      /\ \A i \in 1 .. Len(events) : events'[i] = events[i]
      /\ \A i \in 1 .. n : events'[Len(events) + i] = evs[i]
  BY <1>1 DEF Emit
<1>3. IsEndOf(events, log) /\ IsEndOf(events', log')
  BY <1>1, <1>2, EndGrows DEF LaunchInv, EventsKept
<1> HIDE DEF n, m
<1>4. n >= 1 /\ Recent' = Recent /\ LastTraining' = LastTraining /\ LastTraining = rounds
  BY <1>1, <1>2 DEF Recent, LastTraining, n, m
<1>a. m \in Nat /\ n \in Nat /\ n >= 1 /\ Len(log') = m + n /\ Len(log) = m /\ \A i \in 1 .. m : log'[i] = log[i]
  BY <1>1, <1>2, <1>4 DEF m
<1>b. \A c \in Client : base'[c] = base[c] /\ base[c].at \in Nat /\ got'[c] = got[c] /\ Len(got[c]) \in Nat
  BY <1>1
<1>5. ASSUME NEW c \in Client
      PROVE  /\ queue'[c] \in Seq(Emitted)
             /\ stream[c] = "open" => queue'[c] = Put(queue[c], evs)
  <2>1. queue'[c] = IF stream[c] = "open" THEN Put(queue[c], evs) ELSE queue[c]
    BY DEF Emit, Served
  <2>2. ASSUME stream[c] = "open" PROVE Put(queue[c], evs) \in Seq(Emitted)
    BY <1>1, <2>2, PutNewest DEF LaunchInv, QueueOK
  <2>3. QED
    BY <1>1, <2>1, <2>2
<1>6. LaunchType'
  <2>1. queue' \in [Client -> Seq(Emitted)]
    <3>1. queue' = [c \in Client |-> queue'[c]]
      BY DEF Emit
    <3>2. QED
      BY <1>5, <3>1
  <2>2. QED
    BY <1>1, <1>2, <2>1 DEF LaunchType
<1>7. EventsKept'
  <2>1. \A i \in 1 .. Len(events') : events'[i].of = rounds'
    <3>1. ASSUME NEW i \in 1 .. Len(events) + n, i \notin 1 .. Len(events)
          PROVE  i - Len(events) \in 1 .. n /\ i = Len(events) + (i - Len(events))
      BY <1>1, <3>1
    <3>2. \A i \in 1 .. Len(events) : events[i].of = rounds
      BY DEF LaunchInv, EventsKept
    <3>3. \A i \in 1 .. n : evs[i].of = rounds
      BY DEF n
    <3>4. QED
      BY <1>2, <3>1, <3>2, <3>3
  <2>2. trainer' = "done" => Len(events') \in 2 .. 4 /\ Ends(log'[Len(log')].kind)
    <3>1. log'[m + n] = evs[n]
      BY <1>1, <1>2, <1>4
    <3>2. QED
      BY <1>1, <1>2, <3>1 DEF n
  <2>3. trainer' = "fitting" => Len(events') = 2
    BY <1>2 DEF n
  <2>4. QED
    BY <1>3, <2>1, <2>2, <2>3 DEF EventsKept
<1>8. ASSUME NEW c \in Client PROVE JoinOK(c)'
  <2> DEFINE at == base[c].at
             t == Joined(c)
  <2>1. /\ at \in 1 .. m + 1 /\ at \in Nat
        /\ t = LastTraining => at = Recent
        /\ t # LastTraining => EndedWithin(t, at, m)
        /\ base[c].training \in 0 .. rounds
        /\ \A j \in at .. m : log[j].of # t => EndedWithin(t, at, j - 1)
    BY <1>1 DEF LaunchInv, JoinOK, m
  <2>2. base' = base /\ t' = t /\ at' = at
    BY DEF Joined
  <2> HIDE DEF at, t
  <2>3. ASSUME NEW j \in at - 1 .. m, NEW k \in j .. m + n, EndedWithin(t, at, j)
        PROVE  \E i \in at .. k : log'[i].of = t /\ Ends(log'[i].kind)
    <3>1. PICK i \in at .. j : log[i].of = t /\ Ends(log[i].kind)
      BY <2>3 DEF EndedWithin
    <3>2. i \in 1 .. m /\ i \in at .. k
      BY <1>1, <2>1
    <3>3. log'[i] = log[i]
      BY <1>2, <3>2
    <3>4. QED
      BY <3>1, <3>2, <3>3
  <2>4. t # LastTraining => \E i \in at .. m + n : log'[i].of = t /\ Ends(log'[i].kind)
    <3>1. m \in at - 1 .. m /\ m + n \in m .. m + n
      BY <1>a, <2>1
    <3>2. QED
      BY <2>1, <2>3, <3>1
  <2>5. ASSUME NEW j \in at .. m + n, log'[j].of # t
        PROVE  \E i \in at .. j - 1 : log'[i].of = t /\ Ends(log'[i].kind)
    <3>1. CASE j \in 1 .. m
      <4>1. EndedWithin(t, at, j - 1) /\ j - 1 \in at - 1 .. m /\ j - 1 \in j - 1 .. m + n
        BY <1>1, <1>2, <2>1, <2>5, <3>1
      <4>2. QED
        BY <2>3, <4>1
    <3>2. CASE j \notin 1 .. m
      <4>1. j - m \in 1 .. n /\ j = m + (j - m)
        BY <1>1, <2>1, <3>2
      <4>2. log'[j].of = rounds
        BY <1>2, <4>1 DEF n
      <4>3. EndedWithin(t, at, m) /\ m \in at - 1 .. m /\ j - 1 \in m .. m + n
        BY <1>a, <1>4, <2>1, <2>5, <4>1, <4>2
      <4>4. QED
        BY <2>3, <4>3
    <3>3. QED
      BY <3>1, <3>2
  <2>6. /\ at \in 1 .. Len(log') + 1 /\ base[c].training \in 0 .. rounds
        /\ t = LastTraining' => at = Recent'
        /\ t # LastTraining' => \E i \in at .. Len(log') : log'[i].of = t /\ Ends(log'[i].kind)
        /\ \A j \in at .. Len(log') : log'[j].of # t => \E i \in at .. j - 1 : log'[i].of = t /\ Ends(log'[i].kind)
    BY <1>a, <1>4, <2>1, <2>4, <2>5
  <2>7. QED
    BY <2>2, <2>6 DEF JoinOK, EndedWithin, Ends, at, t
<1>9. ASSUME NEW c \in Client PROVE ReadOK(c)'
  <2>1. base[c].at \in 1 .. m + 1
    BY DEF LaunchInv, JoinOK, m
  <2>2. Due(c)' = Due(c) + n /\ Due(c) \in Nat /\ Due(c) = m + 1 - base[c].at
    BY <1>a, <1>b, <2>1 DEF Due
  <2>3. ASSUME ~Lapped(c)' PROVE ~Lapped(c)
    BY <1>a, <1>b, <2>1, <2>3, LauncherAssumption DEF Lapped
  <2>4. ASSUME ~Lapped(c)', NEW i \in 1 .. Len(got[c])
        PROVE  got[c][i] = log'[base[c].at + i - 1]
    <3>1. Len(got[c]) <= Due(c) /\ got[c][i] = log[base[c].at + i - 1]
      BY <2>3, <2>4 DEF LaunchInv, ReadOK
    <3>2. base[c].at + i - 1 \in 1 .. m
      <4> DEFINE at == base[c].at
                 red == Len(got[c])
      <4>1. at \in Nat /\ at >= 1 /\ i \in Nat /\ i >= 1 /\ i <= red /\ red \in Nat /\ red <= m + 1 - at
        BY <1>a, <1>b, <2>1, <2>2, <3>1
      <4> HIDE DEF at, red
      <4>2. at + i - 1 \in 1 .. m
        BY <1>a, <4>1
      <4>3. QED
        BY <4>2 DEF at
    <3>3. QED
      BY <1>a, <3>1, <3>2
  <2>5. ~Lapped(c)' => Len(got[c]) <= Due(c)'
    <3>1. ~Lapped(c)' => Len(got[c]) <= Due(c)
      BY <2>3 DEF LaunchInv, ReadOK
    <3>2. QED
      BY <1>a, <1>b, <2>2, <3>1
  <2>6. QED
    BY <2>4, <2>5 DEF LaunchInv, ReadOK, Ends
<1>10. ASSUME NEW c \in Client PROVE QueueOK(c)'
  <2>1. SUFFICES ASSUME stream[c] = "open"
                 PROVE  /\ Len(queue'[c]) <= QueueMax /\ Len(queue'[c]) <= Due(c)' /\ IsEndOf(queue'[c], log')
                        /\ ~Lapped(c)' => Len(got[c]) + Len(queue'[c]) = Due(c)'
                        /\ queue'[c] # <<>>
    BY DEF QueueOK
  <2>2. /\ base[c].at \in 1 .. m + 1 /\ Len(got[c]) \in Nat /\ queue[c] \in Seq(Emitted) /\ Len(queue[c]) \in Nat
        /\ Len(queue[c]) <= QueueMax /\ Len(queue[c]) <= Due(c) /\ IsEndOf(queue[c], log)
        /\ ~Lapped(c) => Len(got[c]) + Len(queue[c]) = Due(c)
    BY <1>1, <2>1 DEF LaunchInv, JoinOK, QueueOK, m
  <2>3. Due(c)' = Due(c) + n /\ Due(c) \in Nat
    <3>1. base[c].at \in 1 .. m + 1
      BY <2>2
    <3>2. QED
      BY <1>a, <1>b, <3>1 DEF Due
  <2>4. /\ IsEndOf(queue'[c], log') /\ queue'[c] \in Seq(Emitted)
        /\ Len(queue'[c]) = IF Len(queue[c]) + n > QueueMax THEN QueueMax ELSE Len(queue[c]) + n
    <3>1. queue'[c] = Put(queue[c], evs) /\ log' = log \o evs /\ log \in Seq(Emitted)
      BY <1>1, <1>2, <1>5, <2>1
    <3>2. /\ IsEndOf(Put(queue[c], evs), log \o evs) /\ Put(queue[c], evs) \in Seq(Emitted)
          /\ Len(Put(queue[c], evs)) = IF Len(queue[c]) + Len(evs) > QueueMax
                                         THEN QueueMax ELSE Len(queue[c]) + Len(evs)
      BY <2>2, <3>1, PutNewest
    <3>3. QED
      BY <3>1, <3>2 DEF n
  <2>5. (Lapped(c)' <=> Due(c)' > QueueMax) /\ (Lapped(c) <=> Due(c) > QueueMax)
    BY DEF Lapped, Due
  <2> DEFINE had == Len(queue[c])
             has == Len(queue'[c])
             due == Due(c)
             red == Len(got[c])
  <2>6. /\ had \in Nat /\ due \in Nat /\ red \in Nat /\ QueueMax \in Nat /\ QueueMax >= 4
        /\ had <= QueueMax /\ had <= due /\ (~ (due > QueueMax) => red + had = due)
        /\ has = IF had + n > QueueMax THEN QueueMax ELSE had + n
    BY <2>2, <2>3, <2>4, <2>5, LauncherAssumption
  <2> HIDE DEF had, has, due, red
  <2>7. has <= QueueMax /\ has <= due + n /\ has >= 1 /\ (~ (due + n > QueueMax) => red + has = due + n)
    BY <1>a, <2>6
  <2>8. queue'[c] # <<>>
    BY <2>4, <2>7 DEF has
  <2>9. QED
    BY <2>3, <2>4, <2>5, <2>7, <2>8 DEF has, red, due
<1>11. QED
  BY <1>6, <1>7, <1>8, <1>9, <1>10 DEF LaunchInv

LEMMA StartKeeps == ASSUME LaunchInv, Start PROVE LaunchInv'
<1>1. /\ trainer \in {"none", "done"} /\ trainer' = "new" /\ events' = <<>> /\ rounds' = rounds + 1
      /\ UNCHANGED <<stream, queue, got, log, base>>
  BY DEF Start, NoEvents
<1>2. /\ rounds \in Nat /\ Len(log) \in Nat /\ Len(events) \in Nat /\ Len(events') = 0 /\ events' \in Seq(Emitted)
      /\ log \in Seq(Emitted) /\ base \in [Client -> [at : Nat, training : Nat]]
  BY <1>1, EmptySeq DEF LaunchInv, LaunchType
<1>3. LaunchType'
  BY <1>1, <1>2 DEF LaunchInv, LaunchType
<1>4. EventsKept'
  BY <1>1, <1>2 DEF EventsKept, IsEndOf
<1>5. ASSUME NEW c \in Client PROVE JoinOK(c)'
  <2>1. Joined(c)' = Joined(c) /\ Joined(c) \in Nat
    BY <1>1, <1>2 DEF Joined
  <2>2. /\ base[c].at \in 1 .. Len(log) + 1
        /\ Joined(c) = LastTraining => base[c].at = Recent
        /\ Joined(c) # LastTraining => EndedWithin(Joined(c), base[c].at, Len(log))
        /\ \A j \in base[c].at .. Len(log) : log[j].of # Joined(c) => EndedWithin(Joined(c), base[c].at, j - 1)
        /\ base[c].training \in 0 .. rounds
    BY DEF LaunchInv, JoinOK
  <2>b. ASSUME Joined(c) = LastTraining' => base[c].at = Recent',
               Joined(c) # LastTraining' => EndedWithin(Joined(c), base[c].at, Len(log))
        PROVE  JoinOK(c)'
    <3>1. base[c].training \in 0 .. rounds + 1
      BY <1>2, <2>2
    <3>2. QED
      BY <1>1, <2>1, <2>2, <2>b, <3>1 DEF JoinOK, EndedWithin, Ends
  <2>3. CASE trainer = "none"
    <3>1. rounds = 0 /\ Len(log) = 0 /\ Len(events) = 0
      BY <2>3, EmptySeq DEF LaunchInv, EventsKept
    <3>2. LastTraining' = LastTraining /\ Recent' = Recent
      BY <1>1, <1>2, <3>1 DEF LastTraining, Recent
    <3>3. QED
      BY <2>2, <2>b, <3>2
  <2>4. CASE trainer = "done"
    <3>1. rounds >= 1 /\ Len(events) >= 1 /\ Ends(log[Len(log)].kind) /\ Len(events) <= Len(log)
          /\ log[Len(log)].of = rounds
      <4>1. /\ rounds >= 1 /\ Len(events) \in 2 .. 4 /\ Ends(log[Len(log)].kind) /\ IsEndOf(events, log)
            /\ \A i \in 1 .. Len(events) : events[i].of = rounds
        BY <2>4 DEF LaunchInv, EventsKept
      <4>2. Len(events) \in 1 .. Len(events) /\ Len(log) - Len(events) + Len(events) = Len(log)
        <5>1. Len(events) \in 2 .. 4
          BY <4>1
        <5>2. Len(log) \in Nat /\ Len(events) \in Nat
          BY <1>2
        <5> DEFINE e == Len(events)
                   l == Len(log)
        <5>3. e \in 2 .. 4 /\ l \in Nat
          BY <5>1, <5>2
        <5> HIDE DEF e, l
        <5>4. e \in 1 .. e /\ l - e + e = l
          BY <5>3
        <5>5. QED
          BY <5>4 DEF e, l
      <4>3. events[Len(events)] = log[Len(log)]
        BY <4>1, <4>2 DEF IsEndOf
      <4>4. QED
        BY <1>2, <4>1, <4>2, <4>3 DEF IsEndOf
    <3>2. LastTraining = rounds
      BY <1>2, <3>1 DEF LastTraining
    <3>3. EndedWithin(Joined(c), base[c].at, Len(log))
      <4>1. CASE Joined(c) = LastTraining
        <5>1. base[c].at = Recent /\ Len(log) \in base[c].at .. Len(log)
          BY <1>2, <2>2, <3>1, <4>1 DEF Recent
        <5>2. QED
          BY <3>1, <3>2, <4>1, <5>1 DEF EndedWithin
      <4>2. QED
        BY <2>2, <4>1
    <3>4. Joined(c)' = LastTraining' => base[c].at = Recent'
      <4>1. ASSUME Joined(c) = rounds + 1 PROVE FALSE
        <5>1. base[c].training \in 0 .. rounds
          BY DEF LaunchInv, JoinOK
        <5>2. QED
          BY <1>2, <3>1, <4>1, <5>1 DEF Joined
      <4>2. LastTraining' = rounds + 1
        BY <1>1, <1>2 DEF LastTraining
      <4>3. QED
        BY <2>1, <4>1, <4>2
    <3>5. QED
      BY <2>1, <2>b, <3>3, <3>4
  <2>5. QED
    BY <1>1, <2>3, <2>4
<1>6. ASSUME NEW c \in Client PROVE ReadOK(c)' /\ QueueOK(c)'
  BY <1>1 DEF LaunchInv, ReadOK, QueueOK, Due, Lapped, Ends
<1>7. QED
  BY <1>3, <1>4, <1>5, <1>6 DEF LaunchInv

\* The training says what it is about, fits, and ends: at most four events in all.
LEMMA TaskKeeps ==
  ASSUME LaunchInv, NEW ok \in BOOLEAN, Load(ok) \/ Fit(ok)
  PROVE  LaunchInv'
<1>1. /\ rounds \in Nat /\ rounds >= 1 /\ UNCHANGED <<rounds, stream, got, base>>
      /\ trainer = "new" => Len(events) = 0
      /\ trainer = "fitting" => Len(events) = 2
  BY EmptySeq DEF LaunchInv, LaunchType, EventsKept, Load, Fit
<1>2. ASSUME NEW kind \in {"started", "fit_start", "saved", "finished", "error"}
      PROVE  Event(kind) \in Emitted /\ Event(kind).of = rounds /\ (Ends(Event(kind).kind) <=> Ends(kind))
  BY <1>1 DEF Event, Emitted
<1>3. Ends("finished") /\ Ends("error")
  BY DEF Ends
<1>4. ASSUME NEW evs \in Seq(Emitted), NEW n \in 1 .. 3, Len(evs) = n, NEW m \in {0, 2}, Len(events) = m,
             m + n <= 4, \A i \in 1 .. n : evs[i].of = rounds, Emit(evs),
             \/ trainer' = "fitting" /\ m + n = 2
             \/ trainer' = "done" /\ m + n >= 2 /\ Ends(evs[n].kind)
      PROVE  LaunchInv'
  <2>1. n >= 1 /\ Len(events) + Len(evs) = m + n
    BY <1>4
  <2>2. QED
    BY <1>1, <1>4, <2>1, EmitKeeps
<1>5. ASSUME trainer = "new", trainer' = "fitting", Emit(<<Event("started"), Event("fit_start")>>)
      PROVE  LaunchInv'
  <2>1. PICK evs : evs = <<Event("started"), Event("fit_start")>>
    OBVIOUS
  <2>2. evs \in Seq(Emitted) /\ Len(evs) = 2 /\ (\A i \in 1 .. 2 : evs[i].of = rounds)
    BY <1>2, <1>3, <2>1
  <2>3. Emit(evs)
    BY <1>5, <2>1
  <2>4. QED
    BY <1>1, <1>4, <1>5, <2>2, <2>3
<1>6. ASSUME trainer = "new", trainer' = "done", Emit(<<Event("started"), Event("error"), Event("error")>>)
      PROVE  LaunchInv'
  <2>1. PICK evs : evs = <<Event("started"), Event("error"), Event("error")>>
    OBVIOUS
  <2>2. evs \in Seq(Emitted) /\ Len(evs) = 3 /\ (\A i \in 1 .. 3 : evs[i].of = rounds) /\ Ends(evs[3].kind)
    BY <1>2, <1>3, <2>1
  <2>3. Emit(evs)
    BY <1>6, <2>1
  <2>4. QED
    BY <1>1, <1>4, <1>6, <2>2, <2>3
<1>7. ASSUME trainer = "new", trainer' = "done", Emit(<<Event("started"), Event("error")>>)
      PROVE  LaunchInv'
  <2>1. PICK evs : evs = <<Event("started"), Event("error")>>
    OBVIOUS
  <2>2. evs \in Seq(Emitted) /\ Len(evs) = 2 /\ (\A i \in 1 .. 2 : evs[i].of = rounds) /\ Ends(evs[2].kind)
    BY <1>2, <1>3, <2>1
  <2>3. Emit(evs)
    BY <1>7, <2>1
  <2>4. QED
    BY <1>1, <1>4, <1>7, <2>2, <2>3
<1>8. ASSUME trainer = "fitting", trainer' = "done", Emit(<<Event("saved"), Event("finished")>>)
      PROVE  LaunchInv'
  <2>1. PICK evs : evs = <<Event("saved"), Event("finished")>>
    OBVIOUS
  <2>2. evs \in Seq(Emitted) /\ Len(evs) = 2 /\ (\A i \in 1 .. 2 : evs[i].of = rounds) /\ Ends(evs[2].kind)
    BY <1>2, <1>3, <2>1
  <2>3. Emit(evs)
    BY <1>8, <2>1
  <2>4. QED
    BY <1>1, <1>4, <1>8, <2>2, <2>3
<1>9. ASSUME trainer = "fitting", trainer' = "done", Emit(<<Event("error")>>)
      PROVE  LaunchInv'
  <2>1. PICK evs : evs = <<Event("error")>>
    OBVIOUS
  <2>2. evs \in Seq(Emitted) /\ Len(evs) = 1 /\ (\A i \in 1 .. 1 : evs[i].of = rounds) /\ Ends(evs[1].kind)
    BY <1>2, <1>3, <2>1
  <2>3. Emit(evs)
    BY <1>9, <2>1
  <2>4. QED
    BY <1>1, <1>4, <1>9, <2>2, <2>3
<1>10. QED
  BY <1>5, <1>6, <1>7, <1>8, <1>9 DEF Load, Fit

\* What is said of a client that does nothing stays true.
LEMMA OthersKeep ==
  ASSUME LaunchInv, NEW d \in Client, UNCHANGED <<trainer, events, rounds, log>>,
         base'[d] = base[d], got'[d] = got[d], stream'[d] = stream[d], queue'[d] = queue[d]
  PROVE  JoinOK(d)' /\ ReadOK(d)' /\ QueueOK(d)'
<1>1. JoinOK(d)'
  BY DEF LaunchInv, JoinOK, Joined, LastTraining, Recent, EndedWithin, Ends
<1>2. ReadOK(d)'
  BY DEF LaunchInv, ReadOK, Ends, Due, Lapped
<1>3. QueueOK(d)'
  BY DEF LaunchInv, QueueOK, IsEndOf, Due, Lapped
<1>4. QED
  BY <1>1, <1>2, <1>3

LEMMA JoinKeeps ==
  ASSUME LaunchInv, NEW c \in Client, Join(c)
  PROVE  LaunchInv'
<1>1. /\ stream[c] = "off" /\ stream' = [stream EXCEPT ![c] = "open"] /\ queue' = [queue EXCEPT ![c] = Replay(events)]
      /\ base' = [base EXCEPT ![c] = [at |-> Recent, training |-> rounds]]
      /\ UNCHANGED <<trainer, events, rounds, got, log>>
  BY DEF Join, Recent
<1>2. /\ rounds \in Nat /\ Len(log) \in Nat /\ Len(events) \in Nat /\ events \in Seq(Emitted)
      /\ stream \in [Client -> {"off", "open", "over"}] /\ queue \in [Client -> Seq(Emitted)]
      /\ base \in [Client -> [at : Nat, training : Nat]]
  BY DEF LaunchInv, LaunchType
<1>3. Len(events) <= 4 /\ Len(events) <= Len(log) /\ IsEndOf(events, log) /\ (trainer = "done" => events # <<>>)
  <2>1. IsEndOf(events, log) /\ Len(events) <= Len(log)
    BY DEF LaunchInv, EventsKept, IsEndOf
  <2>2. trainer = "none" \/ trainer = "new" => Len(events) = 0
    BY EmptySeq DEF LaunchInv, EventsKept
  <2>3. trainer \notin {"none", "new"} => Len(events) \in 2 .. 4
    BY DEF LaunchInv, LaunchType, EventsKept
  <2>4. trainer \in {"none", "new", "fitting", "done"}
    BY DEF LaunchInv, LaunchType
  <2> DEFINE e == Len(events)
  <2>5. e \in Nat /\ (e = 0 \/ e \in 2 .. 4) /\ (trainer = "done" => e \in 2 .. 4)
    BY <1>2, <2>2, <2>3, <2>4
  <2> HIDE DEF e
  <2>6. e <= 4 /\ (trainer = "done" => e # 0)
    BY <2>5
  <2>7. QED
    BY <2>1, <2>6, EmptySeq DEF e
<1>4. Replay(events) = events
  <2>1. QueueMax \in Nat /\ ~(Len(events) > QueueMax)
    BY <1>2, <1>3, LauncherAssumption
  <2>2. Replay(events) = SubSeq(events, 1, Len(events))
    BY <2>1 DEF Replay
  <2>3. QED
    BY <1>2, <2>2
<1>5. /\ Recent \in Nat /\ Recent \in 1 .. Len(log) + 1 /\ Recent = Len(log) + 1 - Len(events)
  BY <1>2, <1>3 DEF Recent
<1>6. /\ stream'[c] = "open" /\ queue'[c] = events /\ base'[c].at = Recent /\ base'[c].training = rounds
      /\ \A d \in Client : d # c => stream'[d] = stream[d] /\ queue'[d] = queue[d] /\ base'[d] = base[d]
      /\ LaunchType'
  BY <1>1, <1>2, <1>4, <1>5 DEF LaunchInv, LaunchType
<1>7. ASSUME NEW d \in Client, d # c PROVE JoinOK(d)' /\ ReadOK(d)' /\ QueueOK(d)'
  BY <1>1, <1>6, <1>7, OthersKeep
<1>8. JoinOK(c)'
  <2>1. Joined(c)' = LastTraining /\ LastTraining' = LastTraining /\ Recent' = Recent
    BY <1>1, <1>6 DEF Joined, LastTraining, Recent
  <2>2. ASSUME NEW j \in Recent .. Len(log) PROVE log[j].of = LastTraining
    <3>1. \A i \in 1 .. Len(events) : events[i].of = rounds /\ events[i] = log[Len(log) - Len(events) + i]
      BY DEF LaunchInv, EventsKept, IsEndOf
    <3>2. j - Recent + 1 \in 1 .. Len(events) /\ Len(log) - Len(events) + (j - Recent + 1) = j
      BY <1>2, <1>3, <1>5
    <3>3. log[j].of = rounds
      BY <3>1, <3>2
    <3>4. rounds # 0
      <4>1. trainer # "none"
        BY <1>2, <3>2, EmptySeq DEF LaunchInv, EventsKept
      <4>2. QED
        BY <1>2, <4>1 DEF LaunchInv, EventsKept
    <3>5. QED
      BY <3>3, <3>4 DEF LastTraining
  <2>3. QED
    BY <1>1, <1>2, <1>5, <1>6, <2>1, <2>2 DEF JoinOK
<1>9. ReadOK(c)' /\ QueueOK(c)'
  <2>1. got'[c] = <<>> /\ Len(got'[c]) = 0 /\ Due(c)' = Len(events)
    <3>1. got'[c] = <<>>
      BY <1>1 DEF LaunchInv, ReadOK
    <3>2. Due(c)' = Len(log) + 1 - Recent
      BY <1>1, <1>6 DEF Due
    <3>3. QED
      BY <1>2, <1>5, <3>1, <3>2, EmptySeq
  <2>2. Len(events) <= QueueMax /\ 0 <= Len(events)
    BY <1>2, <1>3, LauncherAssumption
  <2>3. IsEndOf(queue[c], log)'
    <3>1. log' = log /\ queue'[c] = events
      BY <1>1, <1>6
    <3>2. QED
      BY <1>3, <3>1 DEF IsEndOf
  <2>4. QED
    BY <1>1, <1>2, <1>3, <1>6, <2>1, <2>2, <2>3 DEF ReadOK, QueueOK
<1>10. EventsKept'
  BY <1>1 DEF LaunchInv, EventsKept, IsEndOf, Ends
<1>11. QED
  BY <1>6, <1>7, <1>8, <1>9, <1>10 DEF LaunchInv

LEMMA ReadKeeps ==
  ASSUME LaunchInv, NEW c \in Client, Read(c)
  PROVE  LaunchInv'
<1> DEFINE q == queue[c]
           g == got[c]
           e == Head(queue[c])
<1>1. /\ stream[c] = "open" /\ q # <<>> /\ UNCHANGED <<trainer, events, rounds, log, base>>
      /\ got' = [got EXCEPT ![c] = Append(g, e)] /\ queue' = [queue EXCEPT ![c] = Tail(q)]
      /\ stream' = [stream EXCEPT ![c] = IF Ends(e.kind) THEN "over" ELSE "open"]
  BY DEF Read
<1>2. /\ log \in Seq(Emitted) /\ Len(log) \in Nat /\ q \in Seq(Emitted) /\ g \in Seq(Emitted)
      /\ stream \in [Client -> {"off", "open", "over"}] /\ queue \in [Client -> Seq(Emitted)]
      /\ got \in [Client -> Seq(Emitted)]
  BY DEF LaunchInv, LaunchType
<1>3. /\ base[c].at \in 1 .. Len(log) + 1
      /\ Len(q) <= QueueMax /\ Len(q) <= Due(c) /\ IsEndOf(q, log)
      /\ ~Lapped(c) => Len(g) + Len(q) = Due(c)
      /\ \A i \in 1 .. Len(g) : ~Ends(g[i].kind)
      /\ ~Lapped(c) => \A i \in 1 .. Len(g) : g[i] = log[base[c].at + i - 1]
  BY <1>1 DEF LaunchInv, JoinOK, QueueOK, ReadOK
<1>4. /\ Len(q) \in Nat /\ Len(q) >= 1 /\ e = q[1] /\ e \in Emitted
      /\ Tail(q) = SubSeq(q, 2, Len(q)) /\ Tail(q) \in Seq(Emitted) /\ Len(Tail(q)) = Len(q) - 1
      /\ Append(g, e) \in Seq(Emitted) /\ Len(g) \in Nat /\ Len(Append(g, e)) = Len(g) + 1
      /\ Append(g, e)[Len(g) + 1] = e /\ \A i \in 1 .. Len(g) : Append(g, e)[i] = g[i]
  BY <1>1, <1>2
<1>5. e = log[Len(log) - Len(q) + 1] /\ IsEndOf(Tail(q), log)
  <2>1. e = log[Len(log) - Len(q) + 1]
    <3>1. \A i \in 1 .. Len(q) : q[i] = log[Len(log) - Len(q) + i]
      BY <1>3 DEF IsEndOf
    <3>2. 1 \in 1 .. Len(q) /\ e = q[1]
      BY <1>4
    <3> HIDE DEF q, e
    <3>3. QED
      BY <3>1, <3>2
  <2>2. 1 \in 0 .. Len(q) /\ 1 + 1 = 2
    BY <1>4
  <2>3. IsEndOf(SubSeq(q, 1 + 1, Len(q)), log)
    BY <1>2, <1>3, <2>2, EndOfEnd
  <2>4. QED
    BY <1>4, <2>1, <2>2, <2>3
<1> HIDE DEF q, g, e
<1>6. /\ got'[c] = Append(g, e) /\ queue'[c] = Tail(q) /\ stream'[c] = IF Ends(e.kind) THEN "over" ELSE "open"
      /\ \A d \in Client : d # c => got'[d] = got[d] /\ queue'[d] = queue[d] /\ stream'[d] = stream[d]
      /\ got' \in [Client -> Seq(Emitted)] /\ queue' \in [Client -> Seq(Emitted)]
      /\ stream' \in [Client -> {"off", "open", "over"}]
  BY <1>1, <1>2, <1>4
<1>7. LaunchType'
  BY <1>1, <1>6 DEF LaunchInv, LaunchType
<1>8. EventsKept'
  BY <1>1 DEF LaunchInv, EventsKept, IsEndOf, Ends
<1>9. ASSUME NEW d \in Client, d # c PROVE JoinOK(d)' /\ ReadOK(d)' /\ QueueOK(d)'
  BY <1>1, <1>6, <1>9, OthersKeep
<1>10. JoinOK(c)'
  BY <1>1 DEF LaunchInv, JoinOK, Joined, LastTraining, Recent, EndedWithin, Ends
<1>11. (Due(c)' = Due(c)) /\ (Lapped(c)' <=> Lapped(c)) /\ Due(c) \in Nat /\ Due(c) = Len(log) + 1 - base[c].at
  <2>1. base[c].at \in Nat
    BY <1>3
  <2>2. QED
    BY <1>1, <1>2, <1>3, <2>1 DEF Due, Lapped
<1>12. ReadOK(c)'
  <2>1. \A i \in 1 .. Len(got'[c]) - 1 : ~Ends(got'[c][i].kind)
    BY <1>3, <1>4, <1>6
  <2>2. stream'[c] = "open" => \A i \in 1 .. Len(got'[c]) : ~Ends(got'[c][i].kind)
    BY <1>3, <1>4, <1>6
  <2>3. stream'[c] # "off"
    BY <1>6
  <2>4. ASSUME ~Lapped(c) PROVE \A i \in 1 .. Len(got'[c]) : got'[c][i] = log[base[c].at + i - 1]
    <3> DEFINE l == Len(g)
               k == Len(q)
    <3>1. l \in Nat /\ k \in Nat /\ l + k = Due(c)
      BY <1>3, <1>4, <2>4
    <3> HIDE DEF l, k
    <3>2. base[c].at + (l + 1) - 1 = Len(log) - k + 1
      <4> DEFINE at == base[c].at
                 n == Len(log)
      <4>1. at \in Nat /\ n \in Nat /\ l + k = n + 1 - at
        BY <1>2, <1>3, <1>11, <3>1
      <4> HIDE DEF at, n
      <4>2. at + (l + 1) - 1 = n - k + 1
        BY <3>1, <4>1
      <4>3. QED
        BY <4>2 DEF at, n
    <3>3. \A i \in 1 .. l : Append(g, e)[i] = log[base[c].at + i - 1]
      BY <1>3, <1>4, <2>4 DEF l
    <3>4. Append(g, e)[l + 1] = log[base[c].at + (l + 1) - 1]
      BY <1>4, <1>5, <3>2 DEF l, k
    <3>5. \A i \in 1 .. l + 1 : i \in 1 .. l \/ i = l + 1
      BY <3>1
    <3>6. QED
      BY <1>4, <1>6, <3>3, <3>4, <3>5 DEF l
  <2>5. ASSUME ~Lapped(c) PROVE Len(got'[c]) <= Due(c)
    <3>1. Len(g) + Len(q) = Due(c) /\ Len(got'[c]) = Len(g) + 1
      BY <1>3, <1>4, <1>6, <2>5
    <3>2. QED
      BY <1>4, <3>1
  <2>6. QED
    BY <1>1, <1>11, <2>1, <2>2, <2>3, <2>4, <2>5 DEF ReadOK, Ends
<1>13. QueueOK(c)'
  <2>1. SUFFICES ASSUME stream'[c] = "open"
                 PROVE  /\ Len(queue'[c]) <= QueueMax /\ Len(queue'[c]) <= Due(c) /\ IsEndOf(queue'[c], log)
                        /\ ~Lapped(c) => Len(got'[c]) + Len(queue'[c]) = Due(c)
                        /\ trainer = "done" => queue'[c] # <<>>
    BY <1>1, <1>11 DEF QueueOK, IsEndOf
  <2>2. Len(queue'[c]) = Len(q) - 1 /\ Len(got'[c]) = Len(g) + 1 /\ IsEndOf(queue'[c], log)
    BY <1>4, <1>5, <1>6
  <2>3. ASSUME trainer = "done" PROVE queue'[c] # <<>>
    <3>1. ~Ends(e.kind) /\ Ends(log[Len(log)].kind)
      BY <1>6, <2>1, <2>3 DEF LaunchInv, EventsKept
    <3>2. Len(q) # 1
      <4>1. Len(log) - 1 + 1 = Len(log)
        BY <1>2
      <4>2. Len(q) = 1 => e = log[Len(log)]
        BY <1>5, <4>1
      <4>3. QED
        BY <3>1, <4>2
    <3>3. Len(q) \in Nat /\ Len(q) >= 1 /\ Len(queue'[c]) = Len(q) - 1
      BY <1>4, <2>2
    <3>a. Len(queue'[c]) # 0
      BY <3>2, <3>3
    <3>4. QED
      BY <3>a, EmptySeq
  <2>4. QueueMax \in Nat
    BY LauncherAssumption
  <2>5. Len(q) \in Nat /\ Len(g) \in Nat /\ Len(q) <= QueueMax /\ Len(q) <= Due(c)
        /\ (~Lapped(c) => Len(g) + Len(q) = Due(c))
    BY <1>3, <1>4
  <2>6. QED
    BY <1>11, <2>2, <2>3, <2>4, <2>5
<1>14. QED
  BY <1>7, <1>8, <1>9, <1>10, <1>12, <1>13 DEF LaunchInv

LEMMA LeaveKeeps ==
  ASSUME LaunchInv, NEW c \in Client, Leave(c)
  PROVE  LaunchInv'
<1>1. /\ stream[c] = "open" /\ stream' = [stream EXCEPT ![c] = "over"]
      /\ UNCHANGED <<trainer, events, rounds, queue, got, log, base>>
      /\ stream \in [Client -> {"off", "open", "over"}]
  BY DEF Leave, LaunchInv, LaunchType
<1>2. /\ stream' \in [Client -> {"off", "open", "over"}] /\ stream'[c] = "over"
      /\ \A d \in Client : d # c => stream'[d] = stream[d]
  BY <1>1
<1>3. LaunchType' /\ EventsKept'
  BY <1>1, <1>2 DEF LaunchInv, LaunchType, EventsKept, IsEndOf, Ends
<1>4. ASSUME NEW d \in Client, d # c PROVE JoinOK(d)' /\ ReadOK(d)' /\ QueueOK(d)'
  BY <1>1, <1>2, <1>4, OthersKeep
<1>5. JoinOK(c)'
  BY <1>1 DEF LaunchInv, JoinOK, Joined, LastTraining, Recent, EndedWithin, Ends
<1>6. ReadOK(c)'
  BY <1>1, <1>2 DEF LaunchInv, ReadOK, Ends, Due, Lapped
<1>7. QueueOK(c)'
  BY <1>2 DEF QueueOK
<1>8. QED
  BY <1>3, <1>4, <1>5, <1>6, <1>7 DEF LaunchInv

LEMMA LaunchStep == LaunchInv /\ [LaunchNext]_launchvars => LaunchInv'
<1> SUFFICES ASSUME LaunchInv, [LaunchNext]_launchvars PROVE LaunchInv'
  OBVIOUS
<1>1. CASE Start
  BY <1>1, StartKeeps
<1>2. ASSUME NEW ok \in BOOLEAN, Load(ok) \/ Fit(ok) PROVE LaunchInv'
  BY <1>2, TaskKeeps
<1>3. ASSUME NEW c \in Client, Join(c) PROVE LaunchInv'
  BY <1>3, JoinKeeps
<1>4. ASSUME NEW c \in Client, Read(c) PROVE LaunchInv'
  BY <1>4, ReadKeeps
<1>5. ASSUME NEW c \in Client, Leave(c) PROVE LaunchInv'
  BY <1>5, LeaveKeeps
<1>6. CASE UNCHANGED launchvars
  <2>1. UNCHANGED <<trainer, events, rounds, stream, queue, got, log, base>>
    BY <1>6 DEF launchvars
  <2>2. LaunchType' /\ EventsKept'
    BY <2>1 DEF LaunchInv, LaunchType, EventsKept, IsEndOf, Ends
  <2>3. ASSUME NEW d \in Client PROVE JoinOK(d)' /\ ReadOK(d)' /\ QueueOK(d)'
    BY <2>1, OthersKeep
  <2>4. QED
    BY <2>2, <2>3 DEF LaunchInv
<1>7. QED
  BY <1>1, <1>2, <1>3, <1>4, <1>5, <1>6 DEF LaunchNext

\* What has been read and what waits, of a client that was not lapped, is the log since it joined.
LEMMA GivenInOrder ==
  ASSUME LaunchInv, NEW c \in Client, stream[c] = "open", ~Lapped(c)
  PROVE  got[c] \o queue[c] = SubSeq(log, base[c].at, Len(log))
<1> DEFINE q == queue[c]
           g == got[c]
           at == base[c].at
           n == Len(log)
           r == SubSeq(log, at, n)
<1>1. /\ q \in Seq(Emitted) /\ g \in Seq(Emitted) /\ log \in Seq(Emitted) /\ n \in Nat /\ at \in 1 .. n + 1
      /\ Len(q) \in Nat /\ Len(g) \in Nat /\ Len(g) + Len(q) = n + 1 - at
      /\ \A i \in 1 .. Len(g) : g[i] = log[at + i - 1]
      /\ \A i \in 1 .. Len(q) : q[i] = log[n - Len(q) + i]
  BY DEF LaunchInv, LaunchType, JoinOK, ReadOK, QueueOK, IsEndOf, Due
<1> HIDE DEF q, g, at, n
<1>a. at \in Nat /\ at >= 1 /\ n + 1 - at = Len(g) + Len(q)
  <2>1. n \in Nat /\ at \in 1 .. n + 1 /\ Len(g) + Len(q) = n + 1 - at
    BY <1>1
  <2>2. QED
    BY <2>1
<1>2. g \o q \in Seq(Emitted) /\ Len(g \o q) = Len(g) + Len(q)
      /\ \A i \in 1 .. Len(g) + Len(q) : (g \o q)[i] = IF i <= Len(g) THEN g[i] ELSE q[i - Len(g)]
  <2>1. g \in Seq(Emitted) /\ q \in Seq(Emitted)
    BY <1>1
  <2>2. QED
    BY <2>1
<1>3. r \in Seq(Emitted) /\ Len(r) = Len(g) + Len(q) /\ \A i \in 1 .. Len(g) + Len(q) : r[i] = log[at + i - 1]
  <2>1. log \in Seq(Emitted) /\ n \in Nat /\ at \in 1 .. n + 1 /\ at \in Nat /\ n = Len(log)
    BY <1>1, <1>a DEF n
  <2>2. r \in Seq(Emitted) /\ Len(r) = n + 1 - at /\ \A i \in 1 .. n + 1 - at : r[i] = log[at + i - 1]
    BY <2>1
  <2> HIDE DEF r
  <2>3. QED
    BY <1>a, <2>2
<1> HIDE DEF r
<1>b. at \in Nat /\ n \in Nat /\ Len(g) \in Nat /\ Len(q) \in Nat
  BY <1>1, <1>a
<1>4. ASSUME NEW i \in 1 .. Len(g) + Len(q)
      PROVE  (g \o q)[i] = log[at + i - 1]
  <2>1. CASE i <= Len(g)
    <3>1. i \in 1 .. Len(g)
      BY <1>b, <2>1
    <3>2. QED
      BY <1>1, <1>2, <2>1, <3>1
  <2>2. CASE ~(i <= Len(g))
    <3>1. i - Len(g) \in 1 .. Len(q) /\ n - Len(q) + (i - Len(g)) = at + i - 1
      BY <1>a, <1>b, <2>2
    <3>2. QED
      BY <1>1, <1>2, <2>2, <3>1
  <2>3. QED
    BY <2>1, <2>2
<1>5. g \o q = r
  BY <1>2, <1>3, <1>4, SeqEqual
<1>6. QED
  BY <1>5 DEF g, q, r, at, n

\* The end a client was given is that of its training.
LEMMA VerdictOfJoined ==
  ASSUME LaunchInv, NEW c \in Client, got[c] # <<>>, ~Lapped(c), Ends(Last(got[c]).kind)
  PROVE  Last(got[c]).of = Joined(c)
<1> DEFINE g == got[c]
           k == Len(got[c])
           at == base[c].at
           j == at + k - 1
<1>1. /\ g \in Seq(Emitted) /\ k \in Nat /\ k >= 1 /\ Len(log) \in Nat /\ at \in 1 .. Len(log) + 1
      /\ k <= Len(log) + 1 - at /\ Last(g) = g[k]
      /\ \A i \in 1 .. k : g[i] = log[at + i - 1]
      /\ \A i \in 1 .. k - 1 : ~Ends(g[i].kind)
      /\ \A i \in at .. Len(log) : log[i].of # Joined(c) => EndedWithin(Joined(c), at, i - 1)
  BY EmptySeq DEF LaunchInv, LaunchType, JoinOK, ReadOK, Due, Last
<1> HIDE DEF g, k, at
<1>2. j \in at .. Len(log) /\ Last(g) = log[j]
  BY <1>1
<1>3. ASSUME log[j].of # Joined(c) PROVE FALSE
  <2>1. PICK i \in at .. j - 1 : Ends(log[i].kind)
    BY <1>1, <1>2, <1>3 DEF EndedWithin
  <2>2. i - at + 1 \in 1 .. k - 1 /\ at + (i - at + 1) - 1 = i /\ i - at + 1 \in 1 .. k
    BY <1>1, <2>1
  <2>3. QED
    BY <1>1, <2>1, <2>2
<1>4. QED
  BY <1>2, <1>3 DEF g

LEMMA LaunchInvSound == LaunchInv => StreamsSound
<1> SUFFICES ASSUME LaunchInv PROVE StreamsSound
  OBVIOUS
<1>1. StreamIsFaithful
  <2>1. SUFFICES ASSUME NEW c \in Client, stream[c] = "open"
                 PROVE  /\ got[c] \o queue[c] = SubSeq(log, base[c].at, Len(log)) \/ Lapped(c)
                        /\ queue[c] = SubSeq(log, Len(log) - Len(queue[c]) + 1, Len(log))
    BY DEF StreamIsFaithful
  <2>2. got[c] \o queue[c] = SubSeq(log, base[c].at, Len(log)) \/ Lapped(c)
    BY <2>1, GivenInOrder
  <2>3. IsEndOf(queue[c], log) /\ queue[c] \in Seq(Emitted) /\ log \in Seq(Emitted)
    BY <2>1 DEF LaunchInv, LaunchType, QueueOK
  <2>4. QED
    BY <2>2, <2>3, EndIsSubSeq
<1>2. VerdictIsOfJoined
  BY VerdictOfJoined DEF VerdictIsOfJoined, Joined, Ends
<1>3. EndWaits
  <2>1. SUFFICES ASSUME NEW c \in Client, stream[c] = "open", trainer = "done"
                 PROVE  \E k \in DOMAIN queue[c] : Ends(queue[c][k].kind)
    BY DEF EndWaits, Ends
  <2>2. /\ queue[c] \in Seq(Emitted) /\ queue[c] # <<>> /\ Ends(log[Len(log)].kind) /\ Len(log) \in Nat
        /\ \A i \in 1 .. Len(queue[c]) : queue[c][i] = log[Len(log) - Len(queue[c]) + i]
    BY <2>1 DEF LaunchInv, LaunchType, EventsKept, QueueOK, IsEndOf
  <2>3. /\ Len(queue[c]) \in DOMAIN queue[c] /\ Len(queue[c]) \in 1 .. Len(queue[c])
        /\ Len(log) - Len(queue[c]) + Len(queue[c]) = Len(log)
    BY <2>2
  <2>4. QED
    BY <2>2, <2>3
<1>4. QED
  BY <1>1, <1>2, <1>3 DEF StreamsSound

\* A client of a training's stream is told that training, in order and to its end, for
\* any clients and trainings and any queue that holds the events of one: the verdict it
\* leaves with is that of the training it joined, and nobody waits for an end that has
\* passed (TrainingLauncher.subscribe, _emit and _stream_events).
THEOREM LaunchStreamsSound == LaunchSpec => []StreamsSound
<1>1. LaunchInit => LaunchInv
  BY LaunchInitInv
<1>2. LaunchInv /\ [LaunchNext]_launchvars => LaunchInv'
  BY LaunchStep
<1>3. LaunchInv => StreamsSound
  BY LaunchInvSound
<1>4. QED
  BY <1>1, <1>2, <1>3, PTL DEF LaunchSpec

-----------------------------------------------------------------------------
(* The prompt-fixing loop of Uthereal                                         *)

\* The answers of a run are on a tape of calls, each under the key it was asked for.
Taped(tape, known, prompts) ==
  \A l \in DOMAIN known \cap Leaf :
    /\ Reads[l] \subseteq DOMAIN known
    /\ CallKey(l, prompts, known) \in DOMAIN tape
    /\ tape[CallKey(l, prompts, known)] = known[l]

\* What a run knows when it stands at a step of the workflow.
Had ==
  [context_safeguard      |-> {"message", "workspace"},
   safeguard_talker       |-> {"message", "workspace", "context_safeguard"},
   reasoner               |-> {"message", "workspace", "context_safeguard"},
   conv_talker            |-> {"message", "workspace", "context_safeguard", "reasoner"},
   rule_classifier        |-> {"message", "workspace", "context_safeguard", "reasoner"},
   retrieval_orchestrator |-> {"message", "workspace", "context_safeguard", "reasoner", "rule_classifier"},
   retrieve               |-> {"message", "workspace", "context_safeguard", "reasoner", "rule_classifier",
                               "retrieval_orchestrator"},
   evidence_planner       |-> {"message", "workspace", "context_safeguard", "reasoner", "rule_classifier",
                               "retrieval_orchestrator", "facts"},
   fact_filter            |-> {"message", "workspace", "context_safeguard", "reasoner", "rule_classifier",
                               "retrieval_orchestrator", "facts", "evidence_planner"},
   rag_talker             |-> {"message", "workspace", "context_safeguard", "reasoner", "rule_classifier",
                               "retrieval_orchestrator", "facts", "evidence_planner", "fact_filter"}]

\* The command has a run under way.
Walks == cmd.step \in DOMAIN Had \cup {"ran", "answer"}

Fetched(known) == known.workspace = "fetched"

\* The run under way is on the cassette so far, and knows what its step takes.
RunOK ==
  Walks =>
    /\ {"name", "step", "records", "known"} \subseteq DOMAIN cmd
    /\ {"message", "workspace"} \subseteq DOMAIN cmd.known
    /\ cmd.step \in DOMAIN Had => DOMAIN cmd.known = Had[cmd.step]
    /\ Taped(llm, cmd.known, yaml)
    /\ Fetched(cmd.known) => Exists("metadata")

\* What a command carries from its start to its end.
CarriedOK ==
  Walks =>
    /\ cmd.name \in {"run", "fix", "verify"}
    /\ cmd.name = "fix" => {"target", "dry"} \subseteq DOMAIN cmd /\ cmd.target \in Target
    /\ cmd.name = "verify" =>
         /\ {"before", "answer", "target"} \subseteq DOMAIN cmd
         /\ Taped(llm, cmd.before.known, cmd.before.yaml)
         /\ ~killed => cmd.answer = cmd.before.known
         /\ Fetched(cmd.before.known) => Fetched(cmd.known)
    /\ cmd.step = "answer" => disk["trace"].known = cmd.known

\* A fix, as report or as file.
FixOK(f) ==
  /\ Taped(llm, f.ran.known, f.ran.yaml)
  /\ f.to # f.ran.yaml[f.target] => f.target \in Called(f.ran)

ReportOK == cmd.step = "report" => FixOK(cmd)

TraceOK ==
  Exists("trace") =>
    /\ Taped(llm, disk["trace"].known, disk["trace"].yaml)
    /\ Fetched(disk["trace"].known) => Exists("metadata")

AnswerOK == ~killed /\ Exists("answer") /\ cmd.step # "answer" => disk["answer"] = disk["trace"].known

VerifyOK ==
  Exists("verify") =>
    /\ Taped(llm, disk["verify"].before.known, disk["verify"].before.yaml)
    /\ Taped(llm, disk["verify"].after.known, disk["verify"].after.yaml)
    /\ ~killed => disk["verify"].answer = disk["verify"].before.known
    /\ Fetched(disk["verify"].before.known) => Fetched(disk["verify"].after.known)

FilesOK == TraceOK /\ AnswerOK /\ (Exists("fix") => FixOK(disk["fix"])) /\ VerifyOK

LoopInv ==
  /\ dataset \in Entries /\ DOMAIN disk = File
  /\ cmd.step \in DOMAIN Had \cup {"ran", "answer", "report", "idle"}
  /\ cmd.step = "idle" => cmd = Idle
  /\ RunOK /\ CarriedOK /\ ReportOK /\ FilesOK

-----------------------------------------------------------------------------

\* No leaf answers for the message, the workspace or the facts.
LEMMA LeafNames ==
  /\ Leaf = {"context_safeguard", "safeguard_talker", "reasoner", "conv_talker", "rule_classifier",
             "retrieval_orchestrator", "evidence_planner", "fact_filter", "rag_talker"}
  /\ DOMAIN Had = Leaf \cup {"retrieve"}
  BY DEF Leaf, Reads, Had

\* A leaf knows what its input is rendered from, and has not been asked yet.
LEMMA ReadsAtHand ==
  \A l \in Leaf : l \in DOMAIN Had /\ Reads[l] \subseteq Had[l] /\ l \notin Had[l]
<1>1. ASSUME NEW l \in Leaf PROVE Reads[l] \subseteq Had[l] /\ l \notin Had[l]
  <2>1. CASE l = "context_safeguard"
    BY <2>1 DEF Reads, Had
  <2>2. CASE l = "safeguard_talker"
    BY <2>2 DEF Reads, Had
  <2>3. CASE l = "reasoner"
    BY <2>3 DEF Reads, Had
  <2>4. CASE l = "conv_talker"
    BY <2>4 DEF Reads, Had
  <2>5. CASE l = "rule_classifier"
    BY <2>5 DEF Reads, Had
  <2>6. CASE l = "retrieval_orchestrator"
    BY <2>6 DEF Reads, Had
  <2>7. CASE l = "evidence_planner"
    BY <2>7 DEF Reads, Had
  <2>8. CASE l = "fact_filter"
    BY <2>8 DEF Reads, Had
  <2>9. CASE l = "rag_talker"
    BY <2>9 DEF Reads, Had
  <2>10. QED
    BY <2>1, <2>2, <2>3, <2>4, <2>5, <2>6, <2>7, <2>8, <2>9, LeafNames
<1>2. QED
  BY <1>1, LeafNames

\* An answer leads to a step that takes what is known then.
LEMMA StepsOn ==
  /\ \A l \in Leaf : \A a : \/ After(l, a) = "ran"
                            \/ After(l, a) \in DOMAIN Had /\ Had[After(l, a)] = Had[l] \cup {l}
  /\ Had["evidence_planner"] = Had["retrieve"] \cup {"facts"}
  /\ "facts" \notin Had["retrieve"]
<1>1. ASSUME NEW l \in Leaf, NEW a
      PROVE  After(l, a) = "ran" \/ (After(l, a) \in DOMAIN Had /\ Had[After(l, a)] = Had[l] \cup {l})
  <2>1. CASE l = "context_safeguard"
    BY <2>1 DEF After, Had
  <2>2. CASE l = "reasoner"
    BY <2>2 DEF After, Had
  <2>3. CASE l = "rule_classifier"
    BY <2>3 DEF After, Had
  <2>4. CASE l = "retrieval_orchestrator"
    BY <2>4 DEF After, Had
  <2>5. CASE l = "evidence_planner"
    BY <2>5 DEF After, Had
  <2>6. CASE l = "fact_filter"
    BY <2>6 DEF After, Had
  <2>7. CASE l \in {"safeguard_talker", "conv_talker", "rag_talker"}
    BY <2>7 DEF After
  <2>8. QED
    BY <2>1, <2>2, <2>3, <2>4, <2>5, <2>6, <2>7, LeafNames
<1>2. QED
  BY <1>1 DEF Had

\* A tape on which nothing is overwritten keeps what was on it.
Extends(new, old) == \A k \in DOMAIN old : k \in DOMAIN new /\ new[k] = old[k]

LEMMA StaysTaped ==
  ASSUME NEW new, NEW old, Extends(new, old), NEW known, NEW prompts, Taped(old, known, prompts)
  PROVE  Taped(new, known, prompts)
  BY DEF Taped, Extends

LEMMA Learned ==
  ASSUME NEW known, NEW what, NEW value
  PROVE  /\ DOMAIN Learn(known, what, value) = DOMAIN known \cup {what}
         /\ Learn(known, what, value)[what] = value
         /\ \A x \in DOMAIN known : x # what => Learn(known, what, value)[x] = known[x]
  BY DEF Learn

\* A run that learns something new keeps the keys of the calls it made.
LEMMA SameKeys ==
  ASSUME NEW known, NEW what, what \notin DOMAIN known, NEW value, NEW prompts,
         NEW l \in Leaf, Reads[l] \subseteq DOMAIN known
  PROVE  CallKey(l, prompts, Learn(known, what, value)) = CallKey(l, prompts, known)
<1>1. \A x \in Reads[l] : Learn(known, what, value)[x] = known[x]
  BY DEF Learn
<1>2. [x \in Reads[l] |-> Learn(known, what, value)[x]] = [x \in Reads[l] |-> known[x]]
  BY <1>1
<1>3. QED
  BY <1>2 DEF CallKey

\* ... and what it is told by a leaf, or by the retrieval, comes on top.
LEMMA LearnsTaped ==
  ASSUME NEW tape, NEW known, NEW what, what \notin DOMAIN known, NEW value, NEW prompts,
         Taped(tape, known, prompts),
         what \in Leaf => /\ Reads[what] \subseteq DOMAIN known
                          /\ CallKey(what, prompts, known) \in DOMAIN tape
                          /\ tape[CallKey(what, prompts, known)] = value
  PROVE  Taped(tape, Learn(known, what, value), prompts)
<1> DEFINE more == Learn(known, what, value)
<1>1. /\ DOMAIN more = DOMAIN known \cup {what} /\ more[what] = value
      /\ \A x \in DOMAIN known : x # what => more[x] = known[x]
  BY DEF Learn
<1>2. SUFFICES ASSUME NEW l \in DOMAIN more \cap Leaf
               PROVE  /\ Reads[l] \subseteq DOMAIN more
                      /\ CallKey(l, prompts, more) \in DOMAIN tape
                      /\ tape[CallKey(l, prompts, more)] = more[l]
  BY DEF Taped
<1>3. /\ Reads[l] \subseteq DOMAIN known /\ CallKey(l, prompts, known) \in DOMAIN tape
      /\ tape[CallKey(l, prompts, known)] = more[l]
  <2>1. CASE l = what
    BY <1>1, <1>2, <2>1
  <2>2. CASE l # what
    BY <1>1, <1>2, <2>2 DEF Taped
  <2>3. QED
    BY <2>1, <2>2
<1>4. CallKey(l, prompts, more) = CallKey(l, prompts, known)
  BY <1>2, <1>3, SameKeys
<1>5. QED
  BY <1>1, <1>3, <1>4

-----------------------------------------------------------------------------
(* Each step keeps the invariant *)

LEMMA LoopInitInv == LoopInit => LoopInv
<1> SUFFICES ASSUME LoopInit PROVE LoopInv
  OBVIOUS
<1>1. dataset \in Entries /\ cmd = Idle /\ cmd.step = "idle" /\ DOMAIN disk = File /\ \A f \in File : ~Exists(f)
  BY DEF LoopInit, Idle, Exists
<1>2. ~Walks /\ cmd.step # "report"
  BY <1>1, LeafNames DEF Walks
<1>3. {"trace", "answer", "fix", "verify"} \subseteq File
  BY DEF File
<1>4. QED
  BY <1>1, <1>2, <1>3 DEF LoopInv, RunOK, CarriedOK, ReportOK, FilesOK, TraceOK, AnswerOK, VerifyOK

\* The files stay true where none of those that speak of a run is written.
LEMMA FilesKept ==
  ASSUME FilesOK, Extends(llm', llm),
         \A f \in {"trace", "answer", "fix", "verify"} : disk'[f] = disk[f],
         Exists("metadata") => Exists("metadata")',
         ~killed' => ~killed /\ (cmd.step = "answer" => cmd'.step = "answer")
  PROVE  FilesOK'
<1>1. TraceOK'
  BY StaysTaped DEF FilesOK, TraceOK, Exists
<1>2. AnswerOK'
  BY DEF FilesOK, AnswerOK, Exists
<1>3. Exists("fix")' => FixOK(disk["fix"])'
  BY StaysTaped DEF FilesOK, FixOK, Exists, Called
<1>4. VerifyOK'
  BY StaysTaped DEF FilesOK, VerifyOK, Exists
<1>5. QED
  BY <1>1, <1>2, <1>3, <1>4 DEF FilesOK

\* The run under way learns something and goes on, and what its command carries is kept.
LEMMA GoesOn ==
  ASSUME LoopInv, NEW what, NEW value, NEW step, cmd.step \in DOMAIN Had,
         Extends(llm', llm), UNCHANGED <<dataset, disk, yaml, killed>>,
         what \notin Had[cmd.step],
         what \in Leaf => /\ Reads[what] \subseteq Had[cmd.step]
                          /\ CallKey(what, yaml, cmd.known) \in DOMAIN llm'
                          /\ llm'[CallKey(what, yaml, cmd.known)] = value,
         step = "ran" \/ (step \in DOMAIN Had /\ Had[step] = Had[cmd.step] \cup {what}),
         cmd' = [cmd EXCEPT !.known = Learn(@, what, value), !.step = step]
  PROVE  LoopInv'
<1>1. /\ Walks /\ {"name", "step", "records", "known"} \subseteq DOMAIN cmd
      /\ {"message", "workspace"} \subseteq DOMAIN cmd.known
      /\ DOMAIN cmd.known = Had[cmd.step] /\ Taped(llm, cmd.known, yaml)
      /\ Fetched(cmd.known) => Exists("metadata")
  BY DEF LoopInv, RunOK, Walks
<1>2. /\ cmd'.step = step /\ cmd'.known = Learn(cmd.known, what, value) /\ DOMAIN cmd' = DOMAIN cmd
      /\ \A x \in DOMAIN cmd : x \notin {"known", "step"} => cmd'[x] = cmd[x]
  BY <1>1
<1>3. step \notin {"answer", "report", "idle"} /\ cmd.step \notin {"answer", "report", "idle"}
  BY LeafNames
<1>4. Taped(llm', cmd.known, yaml)
  BY <1>1, StaysTaped
<1>5. Taped(llm', cmd'.known, yaml')
  <2>1. Taped(llm', Learn(cmd.known, what, value), yaml)
    BY <1>1, <1>4, LearnsTaped
  <2>2. QED
    BY <1>2, <2>1
<1>6. /\ DOMAIN cmd'.known = DOMAIN cmd.known \cup {what}
      /\ cmd'.known["workspace"] = cmd.known["workspace"]
  <2>1. "workspace" \in DOMAIN cmd.known /\ what # "workspace"
    BY <1>1
  <2>2. QED
    BY <1>2, <2>1 DEF Learn
<1>7. RunOK'
  <2>1. {"name", "step", "records", "known"} \subseteq DOMAIN cmd' /\ {"message", "workspace"} \subseteq DOMAIN cmd'.known
    BY <1>1, <1>2, <1>6
  <2>2. cmd'.step \in DOMAIN Had => DOMAIN cmd'.known = Had[cmd'.step]
    BY <1>1, <1>2, <1>3, <1>6, LeafNames
  <2>3. Fetched(cmd'.known) => Exists("metadata")'
    BY <1>1, <1>6 DEF Fetched, Exists
  <2>4. QED
    BY <1>5, <2>1, <2>2, <2>3 DEF RunOK
<1>8. CarriedOK'
  <2>1. CarriedOK /\ cmd'.name = cmd.name
    BY <1>1, <1>2 DEF LoopInv
  <2>2. cmd.name = "fix" => {"target", "dry"} \subseteq DOMAIN cmd' /\ cmd'.target = cmd.target /\ cmd.target \in Target
    BY <1>1, <1>2, <2>1 DEF CarriedOK
  <2>3. cmd.name = "verify" =>
          /\ {"before", "answer", "target"} \subseteq DOMAIN cmd'
          /\ cmd'.before = cmd.before /\ cmd'.answer = cmd.answer
    BY <1>1, <1>2, <2>1 DEF CarriedOK
  <2>4. cmd.name = "verify" =>
          /\ Taped(llm', cmd'.before.known, cmd'.before.yaml)
          /\ ~killed' => cmd'.answer = cmd'.before.known
          /\ Fetched(cmd'.before.known) => Fetched(cmd'.known)
    BY <1>1, <1>6, <2>1, <2>3, StaysTaped DEF CarriedOK, Fetched
  <2>5. cmd.name \in {"run", "fix", "verify"} /\ cmd'.step # "answer"
    BY <1>1, <1>2, <1>3, <2>1 DEF CarriedOK
  <2>6. QED
    BY <2>1, <2>2, <2>3, <2>4, <2>5 DEF CarriedOK
<1>9. FilesOK'
  BY <1>3, FilesKept DEF LoopInv, Exists
<1>10. ReportOK'
  BY <1>2, <1>3 DEF ReportOK
<1>11. QED
  BY <1>2, <1>3, <1>7, <1>8, <1>9, <1>10 DEF LoopInv

LEMMA CallKeeps ==
  ASSUME LoopInv, NEW l \in Leaf, CallLeaf(l)
  PROVE  LoopInv'
<1> DEFINE key == CallKey(l, yaml, cmd.known)
<1>1. PICK a \in Replies[l] :
        /\ cmd.step = l
        /\ key \in DOMAIN llm => a = llm[key]
        /\ llm' = Learn(llm, key, a)
        /\ cmd' = [cmd EXCEPT !.known = Learn(@, l, a), !.step = After(l, a)]
        /\ UNCHANGED <<dataset, disk, yaml, killed>>
  BY DEF CallLeaf, KeyOfNow
<1> HIDE DEF key
<1>2. Extends(llm', llm) /\ key \in DOMAIN llm' /\ llm'[key] = a
  BY <1>1 DEF Learn, Extends
<1>3. l \in DOMAIN Had /\ Reads[l] \subseteq Had[l] /\ l \notin Had[l]
  BY ReadsAtHand
<1>4. After(l, a) = "ran" \/ (After(l, a) \in DOMAIN Had /\ Had[After(l, a)] = Had[l] \cup {l})
  BY StepsOn
<1>5. QED
  BY <1>1, <1>2, <1>3, <1>4, GoesOn DEF key

LEMMA RetrieveKeeps ==
  ASSUME LoopInv, Retrieve
  PROVE  LoopInv'
<1>1. PICK f, g \in {"f1", "f2"} :
        /\ cmd.step = "retrieve" /\ UNCHANGED <<dataset, disk, yaml, llm, killed>>
        /\ cmd' = [cmd EXCEPT !.known = Learn(@, "facts", <<f, g>>), !.step = "evidence_planner"]
  BY DEF Retrieve
<1>2. Extends(llm', llm)
  BY <1>1 DEF Extends
<1>3. "retrieve" \in DOMAIN Had /\ "evidence_planner" \in DOMAIN Had /\ "facts" \notin Leaf
  BY LeafNames
<1>4. Had["evidence_planner"] = Had["retrieve"] \cup {"facts"} /\ "facts" \notin Had["retrieve"]
  BY StepsOn
<1>5. PICK facts : facts = <<f, g>>
  OBVIOUS
<1>6. QED
  BY <1>1, <1>2, <1>3, <1>4, <1>5, GoesOn

\* A process that ends leaves the files as they are.
LEMMA DiesKeeps ==
  ASSUME LoopInv, Dies
  PROVE  LoopInv'
<1>1. cmd' = Idle /\ cmd'.step = "idle" /\ UNCHANGED <<dataset, disk, yaml, llm>>
  BY DEF Dies, Idle
<1>2. ~killed' => ~killed /\ cmd.step # "answer"
  BY LeafNames DEF Dies
<1>3. ~Walks' /\ cmd'.step # "report"
  BY <1>1, LeafNames DEF Walks
<1>4. FilesOK'
  <2>1. Extends(llm', llm)
    BY <1>1 DEF Extends
  <2>2. QED
    BY <1>1, <1>2, <2>1, FilesKept DEF LoopInv, Exists
<1>5. QED
  BY <1>1, <1>3, <1>4 DEF LoopInv, RunOK, CarriedOK, ReportOK

\* What a command that starts knows is on no tape yet.
LEMMA FreshRun ==
  ASSUME NEW w
  PROVE  /\ DOMAIN Known(w) = {"message", "workspace"} /\ Known(w).workspace = w
         /\ \A tape, prompts : Taped(tape, Known(w), prompts)
<1>1. DOMAIN Known(w) = {"message", "workspace"} /\ Known(w).workspace = w
  BY DEF Known
<1>2. DOMAIN Known(w) \cap Leaf = {}
  BY <1>1, LeafNames
<1>3. QED
  BY <1>1, <1>2 DEF Taped

LEMMA FirstStepIs ==
  FirstStep \in {"ran", "context_safeguard"} /\ "context_safeguard" \in DOMAIN Had
    /\ Had["context_safeguard"] = {"message", "workspace"}
  BY DEF FirstStep, Had

LEMMA RunStarts ==
  ASSUME NEW w, w = "fetched" => Exists("metadata")', cmd'.step = FirstStep, cmd'.known = Known(w),
         {"name", "step", "records", "known"} \subseteq DOMAIN cmd'
  PROVE  RunOK'
<1>1. DOMAIN Known(w) = {"message", "workspace"} /\ Known(w).workspace = w /\ Taped(llm', Known(w), yaml')
  BY FreshRun
<1>2. cmd'.step \in DOMAIN Had => cmd'.step = "context_safeguard"
  BY FirstStepIs, LeafNames
<1>3. cmd'.step \in DOMAIN Had => DOMAIN cmd'.known = Had[cmd'.step]
  BY <1>1, <1>2, FirstStepIs
<1>4. Fetched(cmd'.known) => Exists("metadata")'
  BY <1>1 DEF Fetched
<1>5. QED
  BY <1>1, <1>3, <1>4 DEF RunOK

\* Metadata that are there are found, and what was fetched is there.
LEMMA MetadataFound ==
  ASSUME DOMAIN disk = File, NEW live \in BOOLEAN, NEW w \in Workspaces(live),
         disk' = [disk EXCEPT !.metadata = MetadataAfter(w)]
  PROVE  /\ Exists("metadata") => Exists("metadata")' /\ w = "fetched"
         /\ w = "fetched" => Exists("metadata")'
         /\ DOMAIN disk' = File /\ \A f \in {"trace", "answer", "fix", "verify"} : disk'[f] = disk[f]
<1>1. "metadata" \in File /\ {"trace", "answer", "fix", "verify"} \subseteq File
  BY DEF File
<1>2. DOMAIN disk' = File /\ disk'["metadata"] = MetadataAfter(w)
      /\ \A f \in {"trace", "answer", "fix", "verify"} : disk'[f] = disk[f]
  BY <1>1
<1>3. Exists("metadata") => w = "fetched"
  BY DEF Workspaces
<1>4. "fetched" # Missing
  BY UtherealAssumption
<1>5. QED
  BY <1>1, <1>2, <1>3, <1>4 DEF Exists, MetadataAfter

LEMMA RunEntryKeeps ==
  ASSUME LoopInv, NEW records \in BOOLEAN, RunEntry(records)
  PROVE  LoopInv'
<1>1. cmd = Idle /\ UNCHANGED <<dataset, yaml, llm, killed>>
  BY DEF RunEntry, Starts
<1>2. PICK w \in IF dataset.inline THEN {"inline"} ELSE Workspaces(dataset.online /\ records) :
        /\ disk' = [disk EXCEPT !.metadata = MetadataAfter(w)]
        /\ cmd' = [name |-> "run", step |-> FirstStep, records |-> records, known |-> Known(w)]
  BY DEF RunEntry
<1>3. /\ Exists("metadata") => Exists("metadata")'
      /\ w = "fetched" => Exists("metadata")'
      /\ DOMAIN disk' = File /\ \A f \in {"trace", "answer", "fix", "verify"} : disk'[f] = disk[f]
  <2>1. dataset.inline \in BOOLEAN /\ dataset.online \in BOOLEAN
    BY UtherealAssumption DEF LoopInv
  <2>2. CASE dataset.inline
    <3>1. w = "inline"
      BY <1>2, <2>2
    <3>2. disk' = [disk EXCEPT !.metadata = disk["metadata"]]
      BY <1>2, <3>1 DEF MetadataAfter
    <3>3. \A f \in File : disk'[f] = disk[f]
      BY <3>2 DEF LoopInv
    <3>4. DOMAIN disk' = File /\ {"metadata", "trace", "answer", "fix", "verify"} \subseteq File
      BY <3>2 DEF LoopInv, File
    <3>5. QED
      BY <3>1, <3>3, <3>4 DEF Exists
  <2>3. CASE ~dataset.inline
    <3>1. w \in Workspaces(dataset.online /\ records) /\ (dataset.online /\ records) \in BOOLEAN
      BY <1>2, <2>1, <2>3
    <3>2. DOMAIN disk = File
      BY DEF LoopInv
    <3>3. QED
      BY <1>2, <3>1, <3>2, MetadataFound
  <2>4. QED
    BY <2>1, <2>2, <2>3
<1>4. /\ cmd'.step = FirstStep /\ cmd'.name = "run" /\ cmd'.known = Known(w)
      /\ DOMAIN cmd' = {"name", "step", "records", "known"}
  BY <1>2
<1>5. /\ DOMAIN Known(w) = {"message", "workspace"} /\ Known(w).workspace = w
      /\ \A tape, prompts : Taped(tape, Known(w), prompts)
  BY FreshRun
<1>6. RunOK'
  BY <1>3, <1>4, RunStarts
<1>7. CarriedOK' /\ ReportOK'
  BY <1>4, FirstStepIs DEF CarriedOK, ReportOK
<1>8. FilesOK'
  <2>1. Extends(llm', llm)
    BY <1>1 DEF Extends
  <2>2. cmd.step # "answer"
    BY <1>1 DEF Idle
  <2>3. QED
    BY <1>1, <1>3, <2>1, <2>2, FilesKept DEF LoopInv
<1>9. QED
  BY <1>1, <1>3, <1>4, <1>6, <1>7, <1>8, FirstStepIs DEF LoopInv

LEMMA FixKeeps ==
  ASSUME LoopInv, NEW l \in Target, NEW manual \in BOOLEAN, NEW dry \in BOOLEAN, Fix(l, manual, dry)
  PROVE  LoopInv'
<1> DEFINE w == CHOOSE v \in Workspaces(FALSE) : TRUE
<1>1. /\ cmd = Idle /\ UNCHANGED <<dataset, disk, yaml, llm, killed>>
      /\ cmd' = [name |-> "fix", step |-> FirstStep, records |-> FALSE,
                 known |-> Known(w), target |-> l, dry |-> dry]
  BY DEF Fix, Starts
<1>2. w = "fetched" => Exists("metadata")
  BY DEF Workspaces
<1> HIDE DEF w
<1>3. /\ cmd'.step = FirstStep /\ cmd'.name = "fix" /\ cmd'.known = Known(w) /\ cmd'.target = l
      /\ DOMAIN cmd' = {"name", "step", "records", "known", "target", "dry"}
  BY <1>1
<1>4. /\ DOMAIN Known(w) = {"message", "workspace"} /\ Known(w).workspace = w
      /\ \A tape, prompts : Taped(tape, Known(w), prompts)
  BY FreshRun
<1>5. RunOK'
  <2>1. w = "fetched" => Exists("metadata")'
    BY <1>1, <1>2 DEF Exists
  <2>2. QED
    BY <1>3, <2>1, RunStarts
<1>6. CarriedOK' /\ ReportOK'
  BY <1>3, FirstStepIs DEF CarriedOK, ReportOK
<1>7. FilesOK'
  <2>1. Extends(llm', llm) /\ cmd.step # "answer"
    BY <1>1 DEF Extends, Idle
  <2>2. QED
    BY <1>1, <2>1, FilesKept DEF LoopInv, Exists
<1>8. QED
  BY <1>1, <1>3, <1>5, <1>6, <1>7, FirstStepIs DEF LoopInv

LEMMA VerifyKeeps ==
  ASSUME LoopInv, Verify
  PROVE  LoopInv'
<1>1. cmd = Idle /\ Exists("trace") /\ Exists("answer") /\ UNCHANGED <<dataset, yaml, llm, killed>>
  BY DEF Verify, Starts
<1>2. PICK w \in Workspaces(dataset.online) :
        /\ disk' = [disk EXCEPT !.metadata = MetadataAfter(w)]
        /\ cmd' = [name |-> "verify", step |-> FirstStep, records |-> TRUE, known |-> Known(w),
                   before |-> disk.trace, answer |-> disk.answer, target |-> disk.fix.target]
  BY DEF Verify
<1>3. /\ Exists("metadata") => Exists("metadata")' /\ w = "fetched"
      /\ w = "fetched" => Exists("metadata")'
      /\ DOMAIN disk' = File /\ \A f \in {"trace", "answer", "fix", "verify"} : disk'[f] = disk[f]
  BY <1>2, MetadataFound, UtherealAssumption DEF LoopInv
<1>4. /\ cmd'.step = FirstStep /\ cmd'.name = "verify" /\ cmd'.known = Known(w)
      /\ cmd'.before = disk["trace"] /\ cmd'.answer = disk["answer"]
      /\ DOMAIN cmd' = {"name", "step", "records", "known", "before", "answer", "target"}
  BY <1>2
<1>5. /\ DOMAIN Known(w) = {"message", "workspace"} /\ Known(w).workspace = w
      /\ \A tape, prompts : Taped(tape, Known(w), prompts)
  BY FreshRun
<1>6. cmd.step # "answer"
  BY <1>1 DEF Idle
<1>7. /\ Taped(llm, disk["trace"].known, disk["trace"].yaml)
      /\ Fetched(disk["trace"].known) => w = "fetched"
      /\ ~killed => disk["answer"] = disk["trace"].known
  BY <1>1, <1>3, <1>6 DEF LoopInv, FilesOK, TraceOK, AnswerOK
<1>8. RunOK'
  BY <1>3, <1>4, RunStarts
<1>9. CarriedOK' /\ ReportOK'
  BY <1>1, <1>4, <1>5, <1>7, FirstStepIs DEF CarriedOK, ReportOK, Fetched
<1>10. FilesOK'
  <2>1. Extends(llm', llm)
    BY <1>1 DEF Extends
  <2>2. QED
    BY <1>1, <1>3, <1>6, <2>1, FilesKept DEF LoopInv
<1>11. QED
  BY <1>1, <1>3, <1>4, <1>8, <1>9, <1>10, FirstStepIs DEF LoopInv

\* A command that is done leaves nothing behind but its files.
LEMMA AtRest ==
  ASSUME LoopInv, cmd' = Idle, dataset' = dataset, DOMAIN disk' = File, FilesOK'
  PROVE  LoopInv'
<1>1. cmd'.step = "idle"
  BY DEF Idle
<1>2. ~Walks' /\ cmd'.step # "report"
  BY <1>1, LeafNames DEF Walks
<1>3. QED
  BY <1>1, <1>2 DEF LoopInv, RunOK, CarriedOK, ReportOK

LEMMA WriteTraceKeeps ==
  ASSUME LoopInv, WriteTrace
  PROVE  LoopInv'
<1>1. /\ cmd.step = "ran" /\ cmd.name = "run" /\ disk' = [disk EXCEPT !.trace = RunSoFar]
      /\ cmd' = [cmd EXCEPT !.step = "answer"] /\ UNCHANGED <<dataset, yaml, llm, killed>>
  BY DEF WriteTrace
<1>2. /\ {"name", "step", "records", "known"} \subseteq DOMAIN cmd
      /\ {"message", "workspace"} \subseteq DOMAIN cmd.known
      /\ Taped(llm, cmd.known, yaml) /\ (Fetched(cmd.known) => Exists("metadata"))
  BY <1>1 DEF LoopInv, RunOK, Walks
<1>3. /\ cmd'.step = "answer" /\ cmd'.name = "run" /\ cmd'.known = cmd.known /\ DOMAIN cmd' = DOMAIN cmd
  BY <1>1, <1>2
<1>4. DOMAIN disk' = File /\ disk'["trace"] = RunSoFar /\ \A f \in File \ {"trace"} : disk'[f] = disk[f]
  BY <1>1 DEF LoopInv, File
<1>5. {"metadata", "trace", "answer", "fix", "verify"} \subseteq File
  BY DEF File
<1>6. Exists("metadata")' = Exists("metadata")
  BY <1>4, <1>5 DEF Exists
<1>7. RunSoFar.known = cmd.known /\ RunSoFar.yaml = yaml
  BY DEF RunSoFar
<1>8. TraceOK' /\ AnswerOK'
  BY <1>1, <1>2, <1>3, <1>4, <1>6, <1>7 DEF TraceOK, AnswerOK
<1>9. (Exists("fix") => FixOK(disk["fix"]))' /\ VerifyOK'
  BY <1>1, <1>4, <1>5 DEF LoopInv, FilesOK, FixOK, VerifyOK, Exists, Called
<1>10. RunOK'
  BY <1>1, <1>2, <1>3, <1>6, LeafNames DEF RunOK
<1>11. CarriedOK' /\ ReportOK'
  BY <1>3, <1>4, <1>7 DEF CarriedOK, ReportOK
<1>12. QED
  BY <1>1, <1>3, <1>4, <1>8, <1>9, <1>10, <1>11 DEF LoopInv, FilesOK

LEMMA WriteAnswerKeeps ==
  ASSUME LoopInv, WriteAnswer
  PROVE  LoopInv'
<1>1. /\ cmd.step = "answer" /\ disk' = [disk EXCEPT !.answer = cmd.known]
      /\ cmd' = Idle /\ UNCHANGED <<dataset, yaml, llm, killed>>
  BY DEF WriteAnswer
<1>2. disk["trace"].known = cmd.known
  BY <1>1 DEF LoopInv, CarriedOK, Walks
<1>3. DOMAIN disk' = File /\ disk'["answer"] = cmd.known /\ \A f \in File \ {"answer"} : disk'[f] = disk[f]
  BY <1>1 DEF LoopInv, File
<1>4. {"metadata", "trace", "answer", "fix", "verify"} \subseteq File
  BY DEF File
<1>5. TraceOK' /\ (Exists("fix") => FixOK(disk["fix"]))' /\ VerifyOK'
  BY <1>1, <1>3, <1>4 DEF LoopInv, FilesOK, TraceOK, FixOK, VerifyOK, Exists, Called
<1>6. AnswerOK'
  BY <1>2, <1>3, <1>4 DEF AnswerOK
<1>7. QED
  BY <1>1, <1>3, <1>5, <1>6, AtRest DEF FilesOK

\* A file that speaks of no run is written while no command runs.
LEMMA NoteKeeps ==
  ASSUME LoopInv, cmd = Idle, UNCHANGED <<dataset, yaml, llm, cmd, killed>>,
         NEW f \in {"feedback", "blame"}, NEW x, disk' = [disk EXCEPT ![f] = x]
  PROVE  LoopInv'
<1>1. DOMAIN disk' = File /\ \A g \in {"metadata", "trace", "answer", "fix", "verify"} : disk'[g] = disk[g]
  BY DEF LoopInv, File
<1>2. Extends(llm', llm) /\ cmd.step # "answer"
  BY DEF Extends, Idle
<1>3. FilesOK'
  BY <1>1, <1>2, FilesKept DEF LoopInv, Exists
<1>4. QED
  BY <1>1, <1>3, AtRest

LEMMA RewriteKeeps ==
  ASSUME LoopInv, Rewrite
  PROVE  LoopInv'
<1>1. PICK p \in PromptTexts :
        /\ cmd.step = "ran" /\ cmd.name = "fix"
        /\ cmd.target \notin DOMAIN cmd.known => p = yaml[cmd.target]
        /\ cmd' = [name |-> "fix", step |-> "report", target |-> cmd.target, dry |-> cmd.dry,
                   ran |-> RunSoFar, to |-> p]
        /\ UNCHANGED <<dataset, disk, llm, killed>>
  BY DEF Rewrite
<1>2. Taped(llm, cmd.known, yaml) /\ cmd.target \in Leaf
  BY <1>1, UtherealAssumption DEF LoopInv, RunOK, CarriedOK, Walks
<1>3. /\ cmd'.step = "report" /\ cmd'.target = cmd.target /\ cmd'.to = p
      /\ cmd'.ran.known = cmd.known /\ cmd'.ran.yaml = yaml
  BY <1>1 DEF RunSoFar
<1>4. FixOK(cmd')
  BY <1>1, <1>2, <1>3 DEF FixOK, Called
<1>5. FixOK(cmd)'
  <2>1. Taped(llm', cmd'.ran.known, cmd'.ran.yaml)
    BY <1>1, <1>2, <1>3
  <2>2. cmd'.to # cmd'.ran.yaml[cmd'.target] => cmd'.target \in Called(cmd'.ran)
    BY <1>4 DEF FixOK
  <2>3. QED
    BY <2>1, <2>2 DEF FixOK, Called
<1>6. ~Walks'
  BY <1>3, LeafNames DEF Walks
<1>7. FilesOK'
  <2>1. Extends(llm', llm)
    BY <1>1 DEF Extends
  <2>2. QED
    BY <1>1, <2>1, FilesKept DEF LoopInv, Exists
<1>8. QED
  BY <1>1, <1>3, <1>5, <1>6, <1>7 DEF LoopInv, RunOK, CarriedOK, ReportOK

LEMMA ReportKeeps ==
  ASSUME LoopInv, Report
  PROVE  LoopInv'
<1> DEFINE fix == [target |-> cmd.target, dry |-> cmd.dry, ran |-> cmd.ran, to |-> cmd.to]
<1>1. /\ cmd.step = "report" /\ disk' = [disk EXCEPT !.fix = fix]
      /\ cmd' = Idle /\ UNCHANGED <<dataset, yaml, llm, killed>>
  BY DEF Report
<1>2. fix.target = cmd.target /\ fix.ran = cmd.ran /\ fix.to = cmd.to
  OBVIOUS
<1> HIDE DEF fix
<1>3. FixOK(fix)
  BY <1>1, <1>2 DEF LoopInv, ReportOK, FixOK
<1>4. DOMAIN disk' = File /\ disk'["fix"] = fix /\ \A f \in File \ {"fix"} : disk'[f] = disk[f]
  BY <1>1 DEF LoopInv, File
<1>5. {"metadata", "trace", "answer", "fix", "verify"} \subseteq File
  BY DEF File
<1>6. FixOK(disk["fix"])'
  BY <1>1, <1>3, <1>4 DEF FixOK, Called
<1>7. TraceOK' /\ AnswerOK' /\ VerifyOK'
  BY <1>1, <1>4, <1>5 DEF LoopInv, FilesOK, TraceOK, AnswerOK, VerifyOK, Exists
<1>8. QED
  BY <1>1, <1>4, <1>6, <1>7, AtRest DEF FilesOK

LEMMA WriteVerdictKeeps ==
  ASSUME LoopInv, WriteVerdict
  PROVE  LoopInv'
<1> DEFINE verdict == [before |-> cmd.before, answer |-> cmd.answer, after |-> RunSoFar, target |-> cmd.target]
<1>1. /\ cmd.step = "ran" /\ cmd.name = "verify" /\ disk' = [disk EXCEPT !.verify = verdict]
      /\ cmd' = Idle /\ UNCHANGED <<dataset, yaml, llm, killed>>
  BY DEF WriteVerdict
<1>2. /\ verdict.before = cmd.before /\ verdict.answer = cmd.answer
      /\ verdict.after.known = cmd.known /\ verdict.after.yaml = yaml
  BY DEF RunSoFar
<1> HIDE DEF verdict
<1>3. /\ Taped(llm, cmd.known, yaml) /\ Taped(llm, cmd.before.known, cmd.before.yaml)
      /\ ~killed => cmd.answer = cmd.before.known
      /\ Fetched(cmd.before.known) => Fetched(cmd.known)
  BY <1>1 DEF LoopInv, RunOK, CarriedOK, Walks
<1>4. DOMAIN disk' = File /\ disk'["verify"] = verdict /\ \A f \in File \ {"verify"} : disk'[f] = disk[f]
  BY <1>1 DEF LoopInv, File
<1>5. {"metadata", "trace", "answer", "fix", "verify"} \subseteq File
  BY DEF File
<1>6. VerifyOK'
  BY <1>1, <1>2, <1>3, <1>4 DEF VerifyOK
<1>7. TraceOK' /\ AnswerOK' /\ (Exists("fix") => FixOK(disk["fix"]))'
  BY <1>1, <1>4, <1>5 DEF LoopInv, FilesOK, TraceOK, AnswerOK, FixOK, Exists, Called
<1>8. QED
  BY <1>1, <1>4, <1>6, <1>7, AtRest DEF FilesOK

LEMMA LoopStep == LoopInv /\ [LoopNext]_loopvars => LoopInv'
<1> SUFFICES ASSUME LoopInv, [LoopNext]_loopvars PROVE LoopInv'
  OBVIOUS
<1>1. ASSUME NEW records \in BOOLEAN, RunEntry(records) PROVE LoopInv'
  BY <1>1, RunEntryKeeps
<1>2. ASSUME NEW l \in Leaf, CallLeaf(l) PROVE LoopInv'
  BY <1>2, CallKeeps
<1>3. CASE Retrieve
  BY <1>3, RetrieveKeeps
<1>4. CASE Dies
  BY <1>4, DiesKeeps
<1>5. CASE WriteTrace
  BY <1>5, WriteTraceKeeps
<1>6. CASE WriteAnswer
  BY <1>6, WriteAnswerKeeps
<1>7. CASE Feedback
  BY <1>7, NoteKeeps DEF Feedback, Starts
<1>8. ASSUME NEW l \in Target, Blame(l) PROVE LoopInv'
  BY <1>8, NoteKeeps DEF Blame, Starts
<1>9. ASSUME NEW l \in Target, NEW manual \in BOOLEAN, NEW dry \in BOOLEAN, Fix(l, manual, dry) PROVE LoopInv'
  BY <1>9, FixKeeps
<1>10. CASE Rewrite
  BY <1>10, RewriteKeeps
<1>11. CASE Report
  BY <1>11, ReportKeeps
<1>12. CASE Verify
  BY <1>12, VerifyKeeps
<1>13. CASE WriteVerdict
  BY <1>13, WriteVerdictKeeps
<1>14. CASE UNCHANGED loopvars
  BY <1>14 DEF loopvars, LoopInv, RunOK, CarriedOK, ReportOK, FilesOK, TraceOK, AnswerOK, VerifyOK, FixOK,
     Walks, Exists, Called
<1>15. QED
  BY <1>1, <1>2, <1>3, <1>4, <1>5, <1>6, <1>7, <1>8, <1>9, <1>10, <1>11, <1>12, <1>13, <1>14 DEF LoopNext

LEMMA LoopInvSound == LoopInv => LoopSound
<1> SUFFICES ASSUME LoopInv PROVE LoopSound
  OBVIOUS
<1>1. RunsReplayable
  BY DEF LoopInv, FilesOK, TraceOK, FixOK, VerifyOK, Taped, RunsReplayable, OnCassette, Called
<1>2. VerifyShowsTheFix
  <2> DEFINE b == disk["verify"].before   a == disk["verify"].after
  <2>1. SUFFICES ASSUME Exists("verify"), NEW l \in Called(b) \cap Called(a),
                        b.yaml[l] = a.yaml[l], \A x \in Reads[l] : b.known[x] = a.known[x]
                 PROVE  b.known[l] = a.known[l]
    BY DEF VerifyShowsTheFix, PromptChanged
  <2>2. Taped(llm, b.known, b.yaml) /\ Taped(llm, a.known, a.yaml)
    BY <2>1 DEF LoopInv, FilesOK, VerifyOK
  <2> HIDE DEF a, b
  <2>3. [x \in Reads[l] |-> b.known[x]] = [x \in Reads[l] |-> a.known[x]]
    BY <2>1
  <2>4. CallKey(l, b.yaml, b.known) = CallKey(l, a.yaml, a.known)
    BY <2>1, <2>3 DEF CallKey
  <2>5. /\ llm[CallKey(l, b.yaml, b.known)] = b.known[l]
        /\ llm[CallKey(l, a.yaml, a.known)] = a.known[l]
    BY <2>1, <2>2 DEF Taped, Called
  <2>6. QED
    BY <2>4, <2>5
<1>3. FixSawTheLeaf
  BY DEF LoopInv, FilesOK, FixOK, FixSawTheLeaf
<1>4. BeforeIsOneRun
  BY DEF LoopInv, FilesOK, AnswerOK, VerifyOK, BeforeIsOneRun
<1>5. MetadataStay
  BY DEF LoopInv, FilesOK, VerifyOK, Fetched, MetadataStay
<1>6. QED
  BY <1>1, <1>2, <1>3, <1>4, <1>5 DEF LoopSound

\* Whatever commands of the prompt-fixing loop are made, killed or repeated on a run
\* directory, with whatever entries, leaves, prompts and answers: each run that a file
\* speaks of can be replayed from the cassette, what verify shows is the effect of
\* fixes and inputs, no prompt is rewritten unseen, and the halves of "before" are of
\* one run unless a process died.
THEOREM LoopAlwaysSound == LoopSpec => []LoopSound
<1>1. LoopInit => LoopInv
  BY LoopInitInv
<1>2. LoopInv /\ [LoopNext]_loopvars => LoopInv'
  BY LoopStep
<1>3. LoopInv => LoopSound
  BY LoopInvSound
<1>4. QED
  BY <1>1, <1>2, <1>3, PTL DEF LoopSpec

=============================================================================
