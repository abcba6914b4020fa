------------------------- MODULE WorkJournalProofs -------------------------
(***************************************************************************)
(* Proofs about WorkJournal for any bounds: what is served, and what the   *)
(* server's cursor passes over; and what the journal keeps with a clock    *)
(* that is never set back below the numbers given and rows that take a     *)
(* second each: no number is given twice, and the journal is an            *)
(* implementation of JournalPromise.                                       *)
(***************************************************************************)
EXTENDS WorkJournal, FiniteSetTheorems, TLAPS

(* The files and the memory hold finitely many rows.                       *)
FiniteInv == IsFiniteSet(entries) /\ IsFiniteSet(file) /\ IsFiniteSet(backup)

(* The rows in memory stand at or below the last number given.             *)
EntriesInv == up => \A r \in entries : r.seq <= seq

(* The bounds are natural numbers.                                         *)
LEMMA BoundTypes == Limit \in Nat /\ PageSize \in Nat /\ MaxClock \in Nat
  BY BoundAssumption

(* Trimming and reading keep only rows that were there, finitely many.     *)
LEMMA NewestRows ==
  ASSUME NEW rows, IsFiniteSet(rows)
  PROVE  Newest(rows) \subseteq rows /\ IsFiniteSet(Newest(rows))
<1>1. Newest(rows) \in SUBSET rows BY DEF Newest
<1>2. QED BY <1>1, FS_Subset

(* What load() can read is a finite set of rows.                           *)
LEMMA ReadableRows ==
  ASSUME TypeOK, FiniteInv
  PROVE  Readable \subseteq Row /\ IsFiniteSet(Readable) /\ Cardinality(Readable) \in Nat
<1>1. IsFiniteSet(Readable)
  <2>1. IsFiniteSet(file \union {tail}) BY FS_AddElement DEF FiniteInv
  <2>2. file \union {} = file OBVIOUS
  <2>3. QED BY <2>1, <2>2 DEF Readable, FiniteInv
<1>2. Readable \subseteq Row BY DEF Readable, TypeOK
<1>3. QED BY <1>1, <1>2, FS_CardinalityType

(* The highest number is one, and above every row's.                       *)
LEMMA HighestType ==
  ASSUME NEW rows \in SUBSET Row, NEW n \in Highest(rows)
  PROVE  n \in Nat /\ \A r \in rows : r.seq <= n
  BY DEF Highest, Row

(* A page is made of rows of the memory.                                   *)
LEMMA PageRows == \A n : Page(n) \subseteq entries
  BY DEF Page, After

(* The number to ask from next is a natural number.                        *)
LEMMA CursorType ==
  ASSUME TypeOK, NEW page \in SUBSET Row, NEW n \in CursorAfter(page)
  PROVE  n \in Nat
<1>1. CASE page = {} BY <1>1 DEF CursorAfter, TypeOK
<1>2. CASE page # {} BY <1>2, HighestType DEF CursorAfter
<1>3. QED BY <1>1, <1>2

(* The row of a deed is a row.                                             *)
LEMMA RowForType ==
  ASSUME TypeOK, NEW d \in Deeds
  PROVE  RowFor(d) \in Row
  BY DEF TypeOK, RowFor, Row

(* Recording a row keeps the memory and the file made of rows.             *)
LEMMA RecordRows ==
  ASSUME TypeOK, FiniteInv, NEW d \in Deeds, Record(d)
  PROVE  /\ entries' \subseteq entries \union {RowFor(d)}
         /\ file' \subseteq file \union entries \union {RowFor(d)}
         /\ IsFiniteSet(entries') /\ IsFiniteSet(file')
         /\ Cardinality(entries') \in Nat
<1>1. IsFiniteSet(entries \union {RowFor(d)}) BY FS_AddElement DEF FiniteInv
<1>2. entries' \subseteq entries \union {RowFor(d)} /\ IsFiniteSet(entries')
  BY <1>1, NewestRows DEF Record
<1>3. Cardinality(entries') \in Nat BY <1>2, FS_CardinalityType
<1>4. IsFiniteSet(file \union {RowFor(d)}) BY FS_AddElement DEF FiniteInv
<1>5. Glued(RowFor(d)) \subseteq file \union {RowFor(d)} /\ IsFiniteSet(Glued(RowFor(d)))
  BY <1>4 DEF Glued, FiniteInv
<1>6. file' = Glued(RowFor(d)) \/ file' = entries'
  BY DEF Record
<1>7. QED BY <1>2, <1>3, <1>5, <1>6

(* Every variable of the journal keeps its type, and the sets of rows stay *)
(* finite, which is what the counted lines rest on.                        *)
LEMMA TypeStep ==
  ASSUME TypeOK, FiniteInv, [Next]_vars
  PROVE  TypeOK' /\ FiniteInv'
<1>1. CASE Tick BY <1>1 DEF Tick, memoryVars, diskVars, serverVars, TypeOK, FiniteInv
<1>2. CASE SetBack
  BY <1>2 DEF SetBack, memoryVars, diskVars, serverVars, TypeOK, FiniteInv
<1>3. CASE Load
  <2>1. PICK n \in Highest(Readable) : seq' = ContinuesFrom(n) BY <1>3 DEF Load
  <2>2. seq' \in Nat BY <2>1, ReadableRows, HighestType DEF ContinuesFrom, TypeOK
  <2>3. entries' \subseteq Readable /\ IsFiniteSet(entries')
    BY <1>3, NewestRows, ReadableRows DEF Load
  <2>4. QED BY <1>3, <2>2, <2>3, ReadableRows DEF Load, serverVars, TypeOK, FiniteInv
<1>4. CASE Crash
  BY <1>4, FS_EmptySet DEF Crash, diskVars, serverVars, TypeOK, FiniteInv
<1>5. ASSUME NEW d \in Deeds, Record(d) PROVE TypeOK' /\ FiniteInv'
  <2>r. /\ entries' \subseteq entries \union {RowFor(d)}
        /\ file' \subseteq file \union entries \union {RowFor(d)}
        /\ IsFiniteSet(entries') /\ IsFiniteSet(file')
        /\ Cardinality(entries') \in Nat
    BY <1>5, RecordRows
  <2>1. seq' \in Nat /\ lines' \in Nat
    BY <1>5, <2>r DEF Record, TypeOK
  <2>2. issued' \subseteq Row BY <1>5, RowForType DEF Record, TypeOK
  <2>3. entries' \subseteq Row /\ file' \subseteq Row
    BY <2>r, RowForType DEF TypeOK
  <2>4. QED BY <1>5, <2>1, <2>2, <2>3, <2>r DEF Record, serverVars, TypeOK, FiniteInv
<1>6. ASSUME NEW d \in Deeds, RecordFails(d) PROVE TypeOK' /\ FiniteInv'
  BY <1>6 DEF RecordFails, serverVars, TypeOK, FiniteInv
<1>7. ASSUME NEW d \in Deeds, CrashInAppend(d) PROVE TypeOK' /\ FiniteInv'
  BY <1>7, FS_EmptySet, RowForType DEF CrashInAppend, serverVars, TypeOK, FiniteInv
<1>8. ASSUME NEW delivered \in BOOLEAN, PageServed(delivered) PROVE TypeOK' /\ FiniteInv'
  <2>1. Page(cursor) \in SUBSET Row BY PageRows DEF TypeOK
  <2>2. cursor' \in Nat /\ carried' \subseteq Row
    BY <1>8, <2>1, CursorType DEF PageServed, serverVars, TypeOK
  <2>3. seq' \in Nat BY <1>8 DEF PageServed, Lifted, TypeOK
  <2>4. QED BY <1>8, <2>2, <2>3 DEF PageServed, diskVars, TypeOK, FiniteInv
<1>9. CASE TakeBackup
  BY <1>9 DEF TakeBackup, memoryVars, diskVars, serverVars, TypeOK, FiniteInv
<1>10. CASE RestoreBackup
  BY <1>10 DEF RestoreBackup, memoryVars, serverVars, TypeOK, FiniteInv
<1>11. CASE LoseFile
  BY <1>11, FS_EmptySet DEF LoseFile, memoryVars, serverVars, TypeOK, FiniteInv
<1>12. CASE UNCHANGED vars
  BY <1>12 DEF vars, TypeOK, FiniteInv
<1>13. QED
  BY <1>1, <1>2, <1>3, <1>4, <1>5, <1>6, <1>7, <1>8, <1>9, <1>10, <1>11, <1>12 DEF Next

(* The journal starts typed, with finite sets.                             *)
LEMMA TypeInit == Init => TypeOK /\ FiniteInv
<1>1. Init => FiniteInv BY FS_EmptySet DEF Init, FiniteInv
<1>2. Init => TypeOK
  <2>1. SUFFICES ASSUME Init PROVE TypeOK OBVIOUS
  <2>2. tail \in Row \union {NoTail, Garbage} BY <2>1 DEF Init
  <2>3. /\ clock \in Nat /\ seq \in Nat /\ lines \in Nat /\ cursor \in Nat
        /\ up \in BOOLEAN /\ polled \in BOOLEAN
    BY <2>1 DEF Init
  <2>4. /\ entries \subseteq Row /\ file \subseteq Row /\ backup \subseteq Row
        /\ waiting \subseteq Deeds /\ issued \subseteq Row /\ carried \subseteq Row
    BY <2>1 DEF Init
  <2>5. QED BY <2>2, <2>3, <2>4 DEF TypeOK
<1>3. QED BY <1>1, <1>2

(* Every variable of the journal stays in the set its comment names.       *)
THEOREM TypeCorrect == Spec => []TypeOK
<1>1. TypeOK /\ FiniteInv /\ [Next]_vars => (TypeOK /\ FiniteInv)' BY TypeStep
<1>2. QED BY <1>1, TypeInit, PTL DEF Spec

-----------------------------------------------------------------------------
(* What holds whatever the clock says.                                     *)
ClockFreeInv == TypeOK /\ FiniteInv /\ EntriesInv /\ NewRowsAccepted

(* A new life continues above the file and above the clock.                *)
LEMMA ContinuesAbove ==
  ASSUME TypeOK, NEW n \in Nat
  PROVE  n <= ContinuesFrom(n) /\ clock <= ContinuesFrom(n)
  BY DEF ContinuesFrom, TypeOK

(* The last row of a page is a row of the memory above the cursor.         *)
LEMMA CursorAfterPage ==
  ASSUME TypeOK, NEW n \in CursorAfter(Page(cursor))
  PROVE  \/ n = cursor /\ Page(cursor) = {}
         \/ \E r \in Page(cursor) : n = r.seq /\ cursor < n
<1>1. CASE Page(cursor) = {} BY <1>1 DEF CursorAfter
<1>2. CASE Page(cursor) # {}
  <2>1. n \in Highest(Page(cursor)) BY <1>2 DEF CursorAfter
  <2>2. PICK r \in Page(cursor) : TRUE BY <1>2
  <2>3. r \in Row /\ r.seq \in Nat /\ r.seq > cursor
    BY <2>2, PageRows DEF Page, After, TypeOK, Row
  <2>4. n \in Nat /\ r.seq <= n BY <2>1, <2>2, PageRows, HighestType DEF TypeOK
  <2>5. n # 0 /\ cursor < n BY <2>3, <2>4 DEF TypeOK
  <2>6. QED BY <2>1, <2>5 DEF Highest
<1>3. QED BY <1>1, <1>2

(* The server's cursor stays below the numbering in every step.            *)
LEMMA ClockFreeStep ==
  ASSUME ClockFreeInv, [Next]_vars
  PROVE  ClockFreeInv'
<1>t. TypeOK /\ FiniteInv /\ EntriesInv /\ NewRowsAccepted BY DEF ClockFreeInv
<1>0. TypeOK' /\ FiniteInv' BY <1>t, TypeStep
<1>1. CASE Tick
  BY <1>1, <1>t, <1>0 DEF Tick, memoryVars, serverVars, ClockFreeInv, EntriesInv, NewRowsAccepted
<1>2. CASE SetBack
  BY <1>2, <1>t, <1>0 DEF SetBack, memoryVars, serverVars, ClockFreeInv, EntriesInv, NewRowsAccepted
<1>3. CASE Load
  <2>1. PICK n \in Highest(Readable) : seq' = ContinuesFrom(n) BY <1>3 DEF Load
  <2>2. n \in Nat /\ \A r \in Readable : r.seq \in Nat /\ r.seq <= n
    BY <1>t, ReadableRows, HighestType DEF Row
  <2>3. n <= seq' /\ seq' \in Nat BY <1>t, <1>0, <2>1, <2>2, ContinuesAbove DEF TypeOK
  <2>4. entries' \subseteq Readable BY <1>3, <1>t, NewestRows, ReadableRows DEF Load
  <2>5. EntriesInv' BY <2>2, <2>3, <2>4 DEF EntriesInv
  <2>6. NewRowsAccepted' BY <1>3 DEF Load, NewRowsAccepted
  <2>7. QED BY <1>0, <2>5, <2>6 DEF ClockFreeInv
<1>4. CASE Crash
  BY <1>4, <1>0 DEF Crash, ClockFreeInv, EntriesInv, NewRowsAccepted
<1>5. ASSUME NEW d \in Deeds, Record(d) PROVE ClockFreeInv'
  <2>1. entries' \subseteq entries \union {RowFor(d)} BY <1>5, <1>t, RecordRows
  <2>2. up /\ up' = up /\ seq' = seq + 1 /\ polled' = polled /\ cursor' = cursor
    BY <1>5 DEF Record, MayNumber, serverVars
  <2>3. RowFor(d).seq = seq' BY <2>2 DEF RowFor
  <2>4. \A r \in entries : r.seq \in Nat /\ r.seq <= seq
    BY <1>t, <2>2 DEF EntriesInv, TypeOK, Row
  <2>5. EntriesInv' BY <2>1, <2>2, <2>3, <2>4, <1>t, <1>0 DEF EntriesInv, TypeOK
  <2>6. NewRowsAccepted' BY <2>2, <1>t DEF NewRowsAccepted, TypeOK
  <2>7. QED BY <1>0, <2>5, <2>6 DEF ClockFreeInv
<1>6. ASSUME NEW d \in Deeds, RecordFails(d) PROVE ClockFreeInv'
  <2>1. /\ up /\ up' = up /\ seq' = seq + 1 /\ polled' = polled /\ cursor' = cursor
        /\ entries' = entries
    BY <1>6 DEF RecordFails, MayNumber, serverVars
  <2>2. \A r \in entries : r.seq \in Nat /\ r.seq <= seq
    BY <1>t, <2>1 DEF EntriesInv, TypeOK, Row
  <2>3. EntriesInv' BY <2>1, <2>2, <1>t DEF EntriesInv, TypeOK
  <2>4. NewRowsAccepted' BY <2>1, <1>t DEF NewRowsAccepted, TypeOK
  <2>5. QED BY <1>0, <2>3, <2>4 DEF ClockFreeInv
<1>7. ASSUME NEW d \in Deeds, CrashInAppend(d) PROVE ClockFreeInv'
  BY <1>7, <1>0 DEF CrashInAppend, ClockFreeInv, EntriesInv, NewRowsAccepted
<1>8. ASSUME NEW delivered \in BOOLEAN, PageServed(delivered) PROVE ClockFreeInv'
  <2>1. up /\ up' = up /\ seq' = Lifted /\ entries' = entries
    BY <1>8 DEF PageServed
  <2>2. seq <= seq' /\ cursor <= seq' /\ seq' \in Nat
    BY <2>1, <1>t, <1>0 DEF Lifted, TypeOK
  <2>3. \A r \in entries : r.seq \in Nat /\ r.seq <= seq'
    BY <1>t, <2>1, <2>2 DEF EntriesInv, TypeOK, Row
  <2>4. cursor' = cursor \/ cursor' \in CursorAfter(Page(cursor))
    BY <1>8 DEF PageServed, serverVars
  <2>5. cursor' <= seq'
    <3>1. CASE cursor' = cursor BY <3>1, <2>2
    <3>2. CASE cursor' \in CursorAfter(Page(cursor))
      <4>1. cursor' = cursor \/ \E r \in Page(cursor) : cursor' = r.seq
        BY <3>2, <1>t, CursorAfterPage
      <4>2. QED BY <4>1, <2>2, <2>3, PageRows
    <3>3. QED BY <2>4, <3>1, <3>2
  <2>6. QED BY <1>0, <2>1, <2>3, <2>5 DEF ClockFreeInv, EntriesInv, NewRowsAccepted
<1>9. CASE TakeBackup
  BY <1>9, <1>t, <1>0 DEF TakeBackup, memoryVars, serverVars, ClockFreeInv, EntriesInv, NewRowsAccepted
<1>10. CASE RestoreBackup
  BY <1>10, <1>t, <1>0 DEF RestoreBackup, memoryVars, serverVars, ClockFreeInv, EntriesInv, NewRowsAccepted
<1>11. CASE LoseFile
  BY <1>11, <1>t, <1>0 DEF LoseFile, memoryVars, serverVars, ClockFreeInv, EntriesInv, NewRowsAccepted
<1>12. CASE UNCHANGED vars
  BY <1>12, <1>t, <1>0 DEF vars, ClockFreeInv, EntriesInv, NewRowsAccepted
<1>13. QED
  BY <1>1, <1>2, <1>3, <1>4, <1>5, <1>6, <1>7, <1>8, <1>9, <1>10, <1>11, <1>12 DEF Next

(* Once the app has asked for a page, new rows stand above the server's    *)
(* cursor, also when the clock was wrong or set back.                      *)
THEOREM RowsStayAcceptable == Spec => []NewRowsAccepted
<1>1. Init => ClockFreeInv
  BY TypeInit DEF Init, ClockFreeInv, EntriesInv, NewRowsAccepted
<1>2. ClockFreeInv /\ [Next]_vars => ClockFreeInv' BY ClockFreeStep
<1>3. ClockFreeInv => NewRowsAccepted BY DEF ClockFreeInv
<1>4. QED BY <1>1, <1>2, <1>3, PTL DEF Spec

-----------------------------------------------------------------------------
(* A page leaves out no row below its last one.                            *)
LEMMA PageIsPrefix ==
  ASSUME TypeOK, FiniteInv, NEW p \in Page(cursor), NEW r \in After(cursor),
         r.seq <= p.seq
  PROVE  r \in Page(cursor)
<1> DEFINE Under(row) == { q \in After(cursor) : q.seq < row.seq }
<1>1. After(cursor) \subseteq entries /\ After(cursor) \subseteq Row
  BY DEF After, TypeOK
<1>2. p \in After(cursor) /\ Cardinality(Under(p)) < PageSize BY DEF Page
<1>3. IsFiniteSet(Under(p))
  <2>1. Under(p) \in SUBSET entries BY <1>1
  <2>2. QED BY <2>1, FS_Subset DEF FiniteInv
<1>4. \A q \in After(cursor) : q.seq \in Nat BY <1>1 DEF Row
<1>5. Under(r) \in SUBSET Under(p) BY <1>2, <1>4
<1> HIDE DEF Under
<1>6. /\ Cardinality(Under(r)) <= Cardinality(Under(p))
      /\ Cardinality(Under(r)) \in Nat /\ Cardinality(Under(p)) \in Nat
  BY <1>3, <1>5, FS_Subset, FS_CardinalityType
<1>7. Cardinality(Under(r)) < PageSize BY <1>2, <1>6, BoundTypes
<1>8. QED BY <1>7 DEF Page, Under

(* The server's number never passes a row of the memory that it did not get. *)
THEOREM NoRowSkipped == Spec => NoRowPassedOver
<1> DEFINE Passed(r) == cursor < r.seq /\ r.seq <= cursor'
<1>1. ASSUME TypeOK, FiniteInv, [Next]_vars, NEW r \in entries, Passed(r)
      PROVE  r \in carried'
  <2>1. cursor \in Nat /\ r.seq \in Nat /\ r \in After(cursor)
    BY <1>1 DEF TypeOK, Row, After
  <2>2. cursor' # cursor BY <1>1, <2>1
  <2>3. PICK delivered \in BOOLEAN : PageServed(delivered)
    BY <1>1, <2>2
    DEF Next, vars, Tick, SetBack, Load, Crash, Record, RecordFails, CrashInAppend,
        TakeBackup, RestoreBackup, LoseFile, serverVars
  <2>4. /\ carried' = carried \union Page(cursor)
        /\ cursor' \in CursorAfter(Page(cursor))
    BY <2>2, <2>3 DEF PageServed, serverVars
  <2>5. PICK p \in Page(cursor) : cursor' = p.seq
    BY <1>1, <2>2, <2>4, CursorAfterPage
  <2>6. r \in Page(cursor) BY <1>1, <2>1, <2>5, PageIsPrefix
  <2>7. QED BY <2>4, <2>6
<1>2. TypeOK /\ FiniteInv /\ [Next]_vars
        => [\A r \in entries : Passed(r) => r \in carried']_vars
  BY <1>1
<1>3. TypeOK /\ FiniteInv /\ [Next]_vars => (TypeOK /\ FiniteInv)' BY TypeStep
<1>4. QED BY <1>2, <1>3, TypeInit, PTL DEF Spec, NoRowPassedOver

-----------------------------------------------------------------------------
(* Where an append fails as a whole, the memory is on whole lines.         *)
DiskInv ==
  /\ entries \subseteq file
  /\ up => tail = NoTail
  /\ ~up => entries = {}

(* Every row in memory stays on the disk in every step.                    *)
LEMMA DiskStep ==
  ASSUME ~PartialWrites, TypeOK, FiniteInv, DiskInv, [Next]_vars
  PROVE  DiskInv'
<1>1. CASE Tick \/ SetBack \/ TakeBackup
  BY <1>1 DEF Tick, SetBack, TakeBackup, memoryVars, diskVars, DiskInv
<1>2. CASE Load
  BY <1>2, NewestRows, ReadableRows DEF Load, DiskInv
<1>3. CASE Crash BY <1>3 DEF Crash, DiskInv
<1>4. ASSUME NEW d \in Deeds, Record(d) PROVE DiskInv'
  <2>1. entries' \subseteq entries \union {RowFor(d)} BY <1>4, RecordRows
  <2>2. up /\ up' = up /\ tail' = NoTail /\ (file' = Glued(RowFor(d)) \/ file' = entries')
    BY <1>4 DEF Record, MayNumber
  <2>3. Glued(RowFor(d)) = file \union {RowFor(d)} BY <2>2 DEF Glued, DiskInv
  <2>4. QED BY <2>1, <2>2, <2>3 DEF DiskInv
<1>5. ASSUME NEW d \in Deeds, RecordFails(d) PROVE DiskInv'
  BY <1>5 DEF RecordFails, DiskInv
<1>6. ASSUME NEW d \in Deeds, CrashInAppend(d) PROVE DiskInv'
  BY <1>6 DEF CrashInAppend, DiskInv
<1>7. ASSUME NEW delivered \in BOOLEAN, PageServed(delivered) PROVE DiskInv'
  BY <1>7 DEF PageServed, diskVars, DiskInv
<1>8. CASE RestoreBackup \/ LoseFile
  BY <1>8 DEF RestoreBackup, LoseFile, memoryVars, DiskInv
<1>9. CASE UNCHANGED vars BY <1>9 DEF vars, DiskInv
<1>10. QED
  BY <1>1, <1>2, <1>3, <1>4, <1>5, <1>6, <1>7, <1>8, <1>9 DEF Next

(* A served row can be read again after a restart, as long as no append    *)
(* leaves a piece of its line behind.                                      *)
THEOREM ServedRowsAreOnDisk == ASSUME ~PartialWrites PROVE Spec => []ServedRowsOnDisk
<1>1. Init => DiskInv BY DEF Init, DiskInv
<1>2. TypeOK /\ FiniteInv /\ DiskInv /\ [Next]_vars => (TypeOK /\ FiniteInv /\ DiskInv)'
  BY DiskStep, TypeStep
<1>3. DiskInv => ServedRowsOnDisk BY DEF DiskInv, ServedRowsOnDisk, Readable
<1>4. QED BY <1>1, <1>2, <1>3, TypeInit, PTL DEF Spec

-----------------------------------------------------------------------------

HonestClock == Paced /\ ~ClockBack

(* Whatever is kept anywhere was issued.                                   *)
KnownInv ==
  /\ entries \subseteq issued /\ file \subseteq issued /\ backup \subseteq issued
  /\ carried \subseteq issued
  /\ tail \in Row => tail \in issued

(* The rows issued lie between 1 and the clock, and below the numbering.   *)
IssuedInv == \A r \in issued : 1 <= r.seq /\ r.seq <= clock /\ (up => r.seq <= seq)

(* So do the numbering and the server's cursor.                            *)
ClockInv == /\ clock <= MaxClock /\ cursor <= clock
            /\ up => seq <= clock /\ cursor <= seq

HonestInv == TypeOK /\ FiniteInv /\ KnownInv /\ IssuedInv /\ ClockInv /\ NumberedOnce

(* The numbering of a new life continues from the clock itself.            *)
LEMMA LoadNumber ==
  ASSUME HonestInv, Load
  PROVE  seq' = clock
<1>1. PICK n \in Highest(Readable) : seq' = ContinuesFrom(n) BY DEF Load
<1>2. \A r \in Readable : r \in issued BY DEF HonestInv, KnownInv, Readable
<1>3. n <= clock /\ n \in Nat
  <2>1. n = 0 \/ \E r \in Readable : n = r.seq BY DEF Highest
  <2>2. n \in Nat BY ReadableRows, HighestType DEF HonestInv
  <2>3. QED BY <1>2, <2>1, <2>2 DEF HonestInv, IssuedInv, TypeOK
<1>4. QED BY <1>1, <1>3 DEF ContinuesFrom, HonestInv, TypeOK

(* A row about to be numbered stands above every row and the cursor.       *)
LEMMA FreshNumber ==
  ASSUME HonestClock, HonestInv, NEW d \in Deeds, MayNumber(d)
  PROVE  /\ RowFor(d).seq = seq + 1 /\ RowFor(d) \in Row
         /\ seq + 1 <= clock /\ 1 <= seq + 1 /\ cursor < seq + 1
         /\ \A r \in issued : r.seq < seq + 1
<1>1. seq \in Nat /\ cursor \in Nat /\ clock \in Nat /\ up
  BY DEF HonestInv, TypeOK, MayNumber
<1>2. \A r \in issued : r.seq \in Nat /\ r.seq <= seq
  BY <1>1 DEF HonestInv, TypeOK, IssuedInv, Row
<1>3. RowFor(d) = [seq |-> seq + 1, deed |-> d] /\ RowFor(d) \in Row
  BY RowForType DEF RowFor, HonestInv
<1>4. seq < clock BY DEF HonestClock, MayNumber
<1>5. cursor <= seq BY <1>1 DEF HonestInv, ClockInv
<1>6. QED BY <1>1, <1>2, <1>3, <1>4, <1>5

(* Issuing that row keeps the numbers apart and within the clock.          *)
LEMMA FreshIssued ==
  ASSUME HonestClock, HonestInv, NEW d \in Deeds, MayNumber(d),
         issued' = issued \union {RowFor(d)}, clock' = clock,
         up' => seq' = seq + 1
  PROVE  IssuedInv' /\ NumberedOnce'
<1>1. /\ RowFor(d).seq = seq + 1
      /\ seq + 1 <= clock /\ 1 <= seq + 1
      /\ \A r \in issued : r.seq < seq + 1
  BY FreshNumber
<1>2. \A r \in issued : r.seq \in Nat /\ 1 <= r.seq /\ r.seq <= clock
  BY DEF HonestInv, TypeOK, IssuedInv, Row
<1>3. seq \in Nat /\ clock \in Nat BY DEF HonestInv, TypeOK
<1>4. IssuedInv'
  BY <1>1, <1>2, <1>3 DEF IssuedInv
<1>5. NumberedOnce'
  <2>1. SUFFICES ASSUME NEW r \in issued', NEW q \in issued', r.seq = q.seq
                 PROVE  r = q
    BY DEF NumberedOnce
  <2>2. CASE r \in issued /\ q \in issued
    BY <2>1, <2>2 DEF HonestInv, NumberedOnce
  <2>3. CASE r = RowFor(d) /\ q = RowFor(d) BY <2>3
  <2>4. CASE r = RowFor(d) /\ q \in issued BY <2>1, <2>4, <1>1, <1>2, <1>3
  <2>5. CASE r \in issued /\ q = RowFor(d) BY <2>1, <2>5, <1>1, <1>2, <1>3
  <2>6. QED BY <2>2, <2>3, <2>4, <2>5
<1>6. QED BY <1>4, <1>5

(* Nothing is numbered at the start.                                       *)
LEMMA HonestInit == Init => HonestInv
<1>1. SUFFICES ASSUME Init PROVE HonestInv OBVIOUS
<1>2. TypeOK /\ FiniteInv BY <1>1, TypeInit
<1>3. KnownInv BY <1>1, TailAssumption DEF Init, KnownInv
<1>4. IssuedInv /\ NumberedOnce BY <1>1 DEF Init, IssuedInv, NumberedOnce
<1>5. ClockInv BY <1>1, BoundTypes DEF Init, ClockInv
<1>6. QED BY <1>2, <1>3, <1>4, <1>5 DEF HonestInv

(* Every step keeps the numbers apart, given an honest clock.              *)
LEMMA HonestStep ==
  ASSUME HonestClock, HonestInv, [Next]_vars
  PROVE  HonestInv'
<1>t. TypeOK /\ FiniteInv /\ KnownInv /\ IssuedInv /\ ClockInv /\ NumberedOnce
  BY DEF HonestInv
<1>0. TypeOK' /\ FiniteInv' BY <1>t, TypeStep
<1>n. clock \in Nat /\ seq \in Nat /\ cursor \in Nat BY <1>t DEF TypeOK
<1>i. \A r \in issued : r.seq \in Nat BY <1>t DEF TypeOK, Row
<1>1. CASE Tick
  <2>1. KnownInv' /\ NumberedOnce'
    BY <1>1, <1>t DEF Tick, memoryVars, diskVars, serverVars, KnownInv, NumberedOnce
  <2>2. clock' = clock + 1 /\ clock + 1 <= MaxClock
    BY <1>1, <1>n, BoundTypes DEF Tick
  <2>3. IssuedInv'
    BY <1>1, <1>t, <1>n, <1>i, <2>2 DEF Tick, memoryVars, IssuedInv
  <2>4. ClockInv'
    BY <1>1, <1>t, <1>n, <2>2 DEF Tick, memoryVars, serverVars, ClockInv
  <2>5. QED BY <1>0, <2>1, <2>3, <2>4 DEF HonestInv
<1>2. CASE SetBack
  <2>1. /\ clock' \in Nat /\ clock' <= clock /\ AheadOf(clock')
        /\ UNCHANGED << up, seq, entries, file, tail, backup, issued, carried, cursor >>
    BY <1>2, <1>n DEF SetBack, HonestClock, memoryVars, diskVars, serverVars
  <2>2. KnownInv' /\ NumberedOnce' BY <2>1, <1>t DEF KnownInv, NumberedOnce
  <2>3. IssuedInv' BY <2>1, <1>t DEF AheadOf, IssuedInv
  <2>4. ClockInv' BY <2>1, <1>t, <1>n, BoundTypes DEF AheadOf, ClockInv
  <2>5. QED BY <1>0, <2>2, <2>3, <2>4 DEF HonestInv
<1>3. CASE Load
  <2>1. seq' = clock BY <1>3, LoadNumber
  <2>2. KnownInv'
    <3>1. Readable \subseteq issued BY <1>t DEF KnownInv, Readable
    <3>2. entries' \subseteq Readable BY <1>3, <1>t, NewestRows, ReadableRows DEF Load
    <3>3. QED BY <1>3, <1>t, <3>1, <3>2, TailAssumption DEF Load, serverVars, KnownInv
  <2>3. IssuedInv' BY <1>3, <2>1, <1>t DEF Load, IssuedInv
  <2>4. ClockInv' BY <1>3, <2>1, <1>t, <1>n DEF Load, serverVars, ClockInv
  <2>5. NumberedOnce' BY <1>3, <1>t DEF Load, NumberedOnce
  <2>6. QED BY <1>0, <2>2, <2>3, <2>4, <2>5 DEF HonestInv
<1>4. CASE Crash
  <2>1. KnownInv' /\ NumberedOnce'
    BY <1>4, <1>t DEF Crash, diskVars, serverVars, KnownInv, NumberedOnce
  <2>2. IssuedInv' BY <1>4, <1>t DEF Crash, IssuedInv
  <2>3. ClockInv' BY <1>4, <1>t DEF Crash, serverVars, ClockInv
  <2>4. QED BY <1>0, <2>1, <2>2, <2>3 DEF HonestInv
<1>5. ASSUME NEW d \in Deeds, Record(d) PROVE HonestInv'
  <2>1. MayNumber(d) /\ up /\ up' = up /\ seq' = seq + 1 /\ clock' = clock
        /\ cursor' = cursor /\ carried' = carried /\ backup' = backup
        /\ issued' = issued \union {RowFor(d)} /\ tail' = NoTail
    BY <1>5 DEF Record, MayNumber, serverVars
  <2>2. IssuedInv' /\ NumberedOnce' BY <2>1, FreshIssued
  <2>3. KnownInv'
    <3>1. /\ entries' \subseteq entries \union {RowFor(d)}
          /\ file' \subseteq file \union entries \union {RowFor(d)}
      BY <1>5, <1>t, RecordRows
    <3>2. QED BY <2>1, <3>1, <1>t, TailAssumption DEF KnownInv
  <2>4. ClockInv'
    <3>1. seq + 1 <= clock /\ cursor < seq + 1 BY <2>1, FreshNumber
    <3>2. QED BY <2>1, <3>1, <1>t, <1>n DEF ClockInv
  <2>5. QED BY <1>0, <2>2, <2>3, <2>4 DEF HonestInv
<1>6. ASSUME NEW d \in Deeds, RecordFails(d) PROVE HonestInv'
  <2>1. MayNumber(d) /\ up /\ up' = up /\ seq' = seq + 1 /\ clock' = clock
        /\ cursor' = cursor /\ issued' = issued
    BY <1>6 DEF RecordFails, MayNumber, serverVars
  <2>2. KnownInv' /\ NumberedOnce'
    BY <1>6, <1>t, TailAssumption DEF RecordFails, serverVars, KnownInv, NumberedOnce
  <2>3. seq + 1 <= clock /\ cursor < seq + 1 BY <2>1, FreshNumber
  <2>4. IssuedInv' BY <2>1, <1>t, <1>n, <1>i DEF IssuedInv
  <2>5. ClockInv' BY <2>1, <2>3, <1>t, <1>n DEF ClockInv
  <2>6. QED BY <1>0, <2>2, <2>4, <2>5 DEF HonestInv
<1>7. ASSUME NEW d \in Deeds, CrashInAppend(d) PROVE HonestInv'
  <2>1. MayNumber(d) /\ ~up' /\ clock' = clock /\ entries' = {}
        /\ cursor' = cursor /\ file' = file /\ backup' = backup
    BY <1>7 DEF CrashInAppend, MayNumber, serverVars
  <2>2. \/ tail' = Garbage /\ issued' = issued
        \/ tail' = RowFor(d) /\ issued' = issued \union {RowFor(d)}
    BY <1>7 DEF CrashInAppend
  <2>3. KnownInv'
    BY <2>1, <2>2, <1>7, <1>t, TailAssumption DEF CrashInAppend, serverVars, KnownInv
  <2>4. IssuedInv' /\ NumberedOnce'
    <3>1. CASE issued' = issued BY <3>1, <2>1, <1>t DEF IssuedInv, NumberedOnce
    <3>2. CASE issued' = issued \union {RowFor(d)} BY <3>2, <2>1, FreshIssued
    <3>3. QED BY <2>2, <3>1, <3>2
  <2>5. ClockInv' BY <2>1, <1>t DEF ClockInv
  <2>6. QED BY <1>0, <2>3, <2>4, <2>5 DEF HonestInv
<1>8. ASSUME NEW delivered \in BOOLEAN, PageServed(delivered) PROVE HonestInv'
  <2>1. up /\ up' = up /\ seq' = seq /\ clock' = clock /\ issued' = issued
        /\ entries' = entries /\ file' = file /\ tail' = tail /\ backup' = backup
    BY <1>8, <1>t, <1>n DEF PageServed, Lifted, diskVars, ClockInv
  <2>2. carried' \subseteq issued
    <3>1. carried' = carried \/ carried' = carried \union Page(cursor)
      BY <1>8 DEF PageServed, serverVars
    <3>2. Page(cursor) \subseteq issued BY <1>t, PageRows DEF KnownInv
    <3>3. carried \subseteq issued BY <1>t DEF KnownInv
    <3>4. QED BY <3>1, <3>2, <3>3
  <2>3. cursor' = cursor \/ \E r \in issued : cursor' = r.seq
    <3>1. cursor' = cursor \/ cursor' \in CursorAfter(Page(cursor))
      BY <1>8 DEF PageServed, serverVars
    <3>2. CASE cursor' \in CursorAfter(Page(cursor))
      <4>1. cursor' = cursor \/ \E r \in Page(cursor) : cursor' = r.seq
        BY <3>2, <1>t, CursorAfterPage
      <4>2. Page(cursor) \subseteq issued BY <1>t, PageRows DEF KnownInv
      <4>3. QED BY <4>1, <4>2
    <3>3. QED BY <3>1, <3>2
  <2>4. cursor' <= clock /\ cursor' <= seq
    BY <2>1, <2>3, <1>t DEF IssuedInv, ClockInv
  <2>5. KnownInv' BY <2>1, <2>2, <1>t DEF KnownInv
  <2>6. IssuedInv' /\ NumberedOnce' BY <2>1, <1>t DEF IssuedInv, NumberedOnce
  <2>7. ClockInv' BY <2>1, <2>4, <1>t DEF ClockInv
  <2>8. QED BY <1>0, <2>5, <2>6, <2>7 DEF HonestInv
<1>9. CASE TakeBackup
  <2>1. KnownInv' /\ NumberedOnce'
    BY <1>9, <1>t DEF TakeBackup, memoryVars, diskVars, serverVars, KnownInv, NumberedOnce
  <2>2. IssuedInv' /\ ClockInv'
    BY <1>9, <1>t DEF TakeBackup, memoryVars, serverVars, IssuedInv, ClockInv
  <2>3. QED BY <1>0, <2>1, <2>2 DEF HonestInv
<1>10. CASE RestoreBackup
  <2>1. KnownInv'
    BY <1>10, <1>t, TailAssumption DEF RestoreBackup, memoryVars, serverVars, KnownInv
  <2>4. NumberedOnce' BY <1>10, <1>t DEF RestoreBackup, NumberedOnce
  <2>2. IssuedInv' /\ ClockInv'
    BY <1>10, <1>t DEF RestoreBackup, memoryVars, serverVars, IssuedInv, ClockInv
  <2>3. QED BY <1>0, <2>1, <2>2, <2>4 DEF HonestInv
<1>11. CASE LoseFile
  <2>1. KnownInv' /\ NumberedOnce'
    BY <1>11, <1>t, TailAssumption DEF LoseFile, memoryVars, serverVars, KnownInv, NumberedOnce
  <2>2. IssuedInv' /\ ClockInv'
    BY <1>11, <1>t DEF LoseFile, memoryVars, serverVars, IssuedInv, ClockInv
  <2>3. QED BY <1>0, <2>1, <2>2 DEF HonestInv
<1>12. CASE UNCHANGED vars
  BY <1>12, <1>t, <1>0 DEF vars, HonestInv, KnownInv, IssuedInv, ClockInv, NumberedOnce
<1>13. QED
  BY <1>1, <1>2, <1>3, <1>4, <1>5, <1>6, <1>7, <1>8, <1>9, <1>10, <1>11, <1>12 DEF Next

(* No number is given to two rows, whatever happens to the file.           *)
THEOREM NumbersUnique == ASSUME HonestClock PROVE Spec => []NumberedOnce
<1>1. HonestInv /\ [Next]_vars => HonestInv' BY HonestStep
<1>2. HonestInv => NumberedOnce BY DEF HonestInv
<1>3. QED BY <1>1, <1>2, HonestInit, PTL DEF Spec

-----------------------------------------------------------------------------
(* A step of the journal is a step of its promise, or none.                *)
LEMMA PromiseStep ==
  ASSUME HonestClock, HonestInv, [Next]_vars
  PROVE  [Promise!Next]_<< issued, carried, cursor >>
<1>t. TypeOK /\ FiniteInv /\ KnownInv /\ IssuedInv /\ ClockInv BY DEF HonestInv
<1>n. clock \in Nat /\ seq \in Nat /\ cursor \in Nat BY <1>t DEF TypeOK
<1>1. ASSUME NEW d \in Deeds, MayNumber(d), issued' = issued \union {RowFor(d)},
             UNCHANGED << carried, cursor >>
      PROVE  Promise!Next
  <2>1. /\ RowFor(d).seq = seq + 1 /\ seq + 1 <= clock /\ 1 <= seq + 1
        /\ cursor < seq + 1 /\ \A r \in issued : r.seq < seq + 1
    BY <1>1, FreshNumber
  <2>2. seq + 1 \in 1 .. MaxClock
    BY <2>1, <1>t, <1>n, BoundTypes DEF ClockInv
  <2>3. RowFor(d) \in Promise!Row BY <2>2 DEF RowFor, Promise!Row
  <2>4. Promise!Issue(RowFor(d))
    BY <1>1, <2>1 DEF Promise!Issue, Promise!Above
  <2>5. QED BY <2>3, <2>4 DEF Promise!Next
<1>2. ASSUME NEW delivered \in BOOLEAN, PageServed(delivered)
      PROVE  [Promise!Next]_<< issued, carried, cursor >>
  <2>1. CASE delivered
    <3>1. /\ issued' = issued /\ carried' = carried \union Page(cursor)
          /\ cursor' \in CursorAfter(Page(cursor))
      BY <1>2, <2>1 DEF PageServed
    <3>2. Page(cursor) \in SUBSET issued BY <1>t, PageRows DEF KnownInv
    <3>3. \A r \in Page(cursor) : r.seq \in Nat /\ cursor < r.seq
      BY <1>t, PageRows DEF Page, After, TypeOK, Row
    <3>4. \/ cursor' = cursor /\ Page(cursor) = {}
          \/ \E r \in Page(cursor) : cursor' = r.seq /\ cursor < cursor'
      BY <3>1, <1>t, CursorAfterPage
    <3>5. \A r \in Page(cursor) : r.seq <= cursor'
      <4>1. CASE Page(cursor) = {} BY <4>1
      <4>2. CASE Page(cursor) # {}
        BY <4>2, <3>1, <1>t, PageRows, HighestType DEF CursorAfter, TypeOK
      <4>3. QED BY <4>1, <4>2
    <3>6. cursor' \in {cursor} \union { r.seq : r \in Page(cursor) } /\ cursor <= cursor'
      BY <3>3, <3>4, <1>n
    <3>7. Promise!Carry(Page(cursor), cursor')
      BY <3>1, <3>2, <3>3, <3>5, <3>6 DEF Promise!Carry
    <3>8. QED BY <3>2, <3>6, <3>7 DEF Promise!Next
  <2>2. CASE ~delivered BY <1>2, <2>2 DEF PageServed, serverVars
  <2>3. QED BY <2>1, <2>2
<1>3. ASSUME NEW d \in Deeds, Record(d) PROVE Promise!Next
  BY <1>1, <1>3 DEF Record, MayNumber, serverVars
<1>4. ASSUME NEW d \in Deeds, CrashInAppend(d)
      PROVE  [Promise!Next]_<< issued, carried, cursor >>
  BY <1>1, <1>4 DEF CrashInAppend, MayNumber, serverVars
<1>5. CASE UNCHANGED << issued, carried, cursor >> BY <1>5
<1>6. ASSUME NEW d \in Deeds, RecordFails(d) PROVE UNCHANGED << issued, carried, cursor >>
  BY <1>6 DEF RecordFails, serverVars
<1>7. CASE Tick \/ SetBack \/ Load \/ Crash
  BY <1>7 DEF Tick, SetBack, Load, Crash, serverVars
<1>8. CASE TakeBackup \/ RestoreBackup \/ LoseFile
  BY <1>8 DEF TakeBackup, RestoreBackup, LoseFile, serverVars
<1>9. CASE UNCHANGED vars BY <1>9 DEF vars
<1>10. QED
  BY <1>2, <1>3, <1>4, <1>6, <1>7, <1>8, <1>9 DEF Next

(* The journal implements its promise to the shop's server.                *)
THEOREM JournalImplementsPromise == ASSUME HonestClock PROVE Spec => PromiseKept
<1>1. Init => Promise!Init BY DEF Init, Promise!Init
<1>2. HonestInv /\ [Next]_vars => [Promise!Next]_<< issued, carried, cursor >>
  BY PromiseStep
<1>3. HonestInv /\ [Next]_vars => HonestInv' BY HonestStep
<1>4. QED
  BY <1>1, <1>2, <1>3, HonestInit, PTL DEF Spec, PromiseKept, Promise!Spec
=============================================================================
