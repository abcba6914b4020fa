---------------------------- MODULE WorkJournal ----------------------------
(***************************************************************************)
(* The work journal of a station: class WorkJournal of                     *)
(* src/src/services/work_journal.py, with the file it keeps, the manager   *)
(* being stopped and started around it, and the online app that carries    *)
(* the rows to the shop's server by their numbers.                         *)
(*                                                                         *)
(* `record`, `page` and `load` hold a lock and do not await, so each is one *)
(* step; a crash can still fall inside the append.  Rows are always read   *)
(* in the order of their numbers (load sorts them), so `_entries` and the  *)
(* readable lines of the file are sets of numbered rows.                   *)
(***************************************************************************)
EXTENDS Naturals, FiniteSets

CONSTANTS
  Deeds,           (* prints and card operations to be recorded            *)
  Limit,           (* `limit`: the rows kept                               *)
  CompactAt,       (* lines above which the file is rewritten: twice Limit in
                      the code, less where fewer deeds are to reach it     *)
  PageSize,        (* `limit` of page()                                    *)
  MaxClock,        (* bound: the clock stops here                          *)
  Paced,           (* a row takes a second at least, as _seq_floor assumes *)
  ClockBack,       (* may the clock be set back below the numbers given    *)
  PartialWrites,   (* may a failed append leave a piece of its line        *)
  NoTail, Garbage

ASSUME BoundAssumption ==
  /\ Limit \in Nat \ {0} /\ CompactAt \in Nat /\ Limit <= CompactAt
  /\ PageSize \in Nat \ {0} /\ MaxClock \in Nat
ASSUME FlagAssumption == Paced \in BOOLEAN /\ ClockBack \in BOOLEAN /\ PartialWrites \in BOOLEAN

Row == [seq : Nat, deed : Deeds]

ASSUME TailAssumption == NoTail # Garbage /\ NoTail \notin Row /\ Garbage \notin Row

VARIABLES
  clock,           (* time.time() in seconds                               *)
  up,              (* the manager is running, the journal is loaded        *)
  seq,             (* `_seq`                                               *)
  entries,         (* `_entries`                                           *)
  lines,           (* `_lines`                                             *)
  file,            (* the rows on whole lines of work-journal.jsonl        *)
  tail,            (* its last line, when that has no newline: a row or a piece *)
  backup,          (* a copy of the file somebody made                     *)
  waiting,         (* deeds not recorded yet                               *)
  polled,          (* the app has asked for a page since the start         *)
  issued,          (* history: rows that ever got a number and were kept   *)
  carried,         (* the rows the shop's server has                       *)
  cursor           (* the number it asks from                              *)

vars == << clock, up, seq, entries, lines, file, tail, backup, waiting, polled,
           issued, carried, cursor >>
diskVars   == << file, tail >>
memoryVars == << up, seq, entries, lines, polled >>
serverVars == << carried, cursor >>

Init ==
  /\ clock = 0 /\ up = FALSE /\ seq = 0 /\ entries = {} /\ lines = 0
  /\ file = {} /\ tail = NoTail /\ backup = {} /\ waiting = Deeds
  /\ polled = FALSE /\ issued = {} /\ carried = {} /\ cursor = 0

-----------------------------------------------------------------------------
(* The newest rows of a set, `Limit` of them.                              *)
Newest(rows) == { r \in rows : Cardinality({ q \in rows : q.seq > r.seq }) < Limit }

(* The first rows after a number, `PageSize` of them.                      *)
After(number) == { r \in entries : r.seq > number }
Page(number) == { r \in After(number) :
                    Cardinality({ q \in After(number) : q.seq < r.seq }) < PageSize }

(* What load() can read, the unfinished last line included.                *)
Readable == file \union (IF tail \in Row THEN {tail} ELSE {})

(* The highest number of a set of rows, 0 when it is empty: a set of one.  *)
Highest(rows) == { n \in {0} \union { r.seq : r \in rows } : \A r \in rows : r.seq <= n }

(* Faulty variant: the number is taken from the file alone.                *)
ContinuesFromFile(highest) == highest

(* The numbering never starts below the seconds since the epoch.           *)
ContinuesFrom(highest) == IF highest >= clock THEN highest ELSE clock

(* The row of deed d.                                                      *)
RowFor(d) == [seq |-> seq + 1, deed |-> d]

(* A line put behind an unfinished one is unreadable together with it.     *)
Glued(r) == IF tail = NoTail THEN file \union {r} ELSE file

(* Faulty variant: the next page is asked from the station's last number.  *)
CursorAfterAll(page) == {seq}

(* `pageLastSeq`, from which the next page is asked.                       *)
CursorAfter(page) == IF page = {} THEN {cursor} ELSE Highest(page)

(* A server that is ahead of us lifts our numbering.                       *)
Lifted == IF cursor > seq THEN cursor ELSE seq

-----------------------------------------------------------------------------
Tick == /\ clock < MaxClock
        /\ clock' = clock + 1
        /\ UNCHANGED << memoryVars, diskVars, backup, waiting, issued, serverVars >>

(* A clock is ahead of every number given out.                             *)
AheadOf(time) == seq <= time /\ cursor <= time /\ \A r \in issued : r.seq <= time

(* The clock is corrected backwards: below the numbers given only where    *)
(* ClockBack allows it.                                                    *)
SetBack == /\ clock' \in 0 .. clock
           /\ ClockBack \/ AheadOf(clock')
           /\ UNCHANGED << memoryVars, diskVars, backup, waiting, issued, serverVars >>

(* Faulty variant: a torn last line is not closed off.                     *)
LoadLeavesTail ==
  /\ ~up /\ up' = TRUE /\ polled' = FALSE
  /\ entries' = Newest(Readable)
  /\ lines' = Cardinality(Readable)
  /\ \E highest \in Highest(Readable) : seq' = ContinuesFrom(highest)
  /\ UNCHANGED << clock, diskVars, backup, waiting, issued, serverVars >>

Load ==
  /\ ~up /\ up' = TRUE /\ polled' = FALSE
  /\ entries' = Newest(Readable)
  /\ lines' = Cardinality(Readable)
  /\ \E highest \in Highest(Readable) : seq' = ContinuesFrom(highest)
  /\ file' = Readable /\ tail' = NoTail
  /\ UNCHANGED << clock, backup, waiting, issued, serverVars >>

(* Whoever records is not slower than the numbering (see Paced).           *)
MayNumber(d) == up /\ d \in waiting /\ (Paced => seq < clock)

(* With one more line the file is long enough to be rewritten.             *)
MayCompact == lines + 1 > CompactAt

(* The row is appended, the memory trimmed, and a file grown too long is   *)
(* rewritten with the rows in memory; that may fail, the row stays.        *)
Record(d) ==
  /\ MayNumber(d)
  /\ seq' = seq + 1
  /\ waiting' = waiting \ {d}
  /\ issued' = issued \union {RowFor(d)}
  /\ entries' = Newest(entries \union {RowFor(d)})
  /\ tail' = NoTail
  /\ \/ /\ file' = Glued(RowFor(d)) /\ lines' = lines + 1
     \/ /\ MayCompact
        /\ file' = entries' /\ lines' = Cardinality(entries')
  /\ UNCHANGED << clock, up, backup, polled, serverVars >>

(* The append fails: the row is not served, its number is burned.          *)
RecordFails(d) ==
  /\ MayNumber(d)
  /\ seq' = seq + 1
  /\ waiting' = waiting \ {d}
  /\ tail' \in IF PartialWrites THEN {tail, Garbage} ELSE {tail}
  /\ UNCHANGED << clock, up, entries, lines, file, backup, polled, issued, serverVars >>

(* The manager is killed, updated or loses power.                          *)
Crash ==
  /\ up
  /\ up' = FALSE /\ entries' = {} /\ lines' = 0 /\ seq' = 0 /\ polled' = FALSE
  /\ UNCHANGED << clock, diskVars, backup, waiting, issued, serverVars >>

(* The same in the middle of an append: a piece of the line is there, or   *)
(* all of it but the newline.                                              *)
CrashInAppend(d) ==
  /\ MayNumber(d) /\ tail = NoTail
  /\ up' = FALSE /\ entries' = {} /\ lines' = 0 /\ seq' = 0 /\ polled' = FALSE
  /\ waiting' = waiting \ {d}
  /\ \/ tail' = Garbage /\ UNCHANGED issued
     \/ tail' = RowFor(d) /\ issued' = issued \union {RowFor(d)}
  /\ UNCHANGED << clock, file, backup, serverVars >>

(* The app asks with the server's cursor; the rows it gets may be lost on  *)
(* the way, and then it asks again.                                        *)
PageServed(delivered) ==
  /\ up /\ polled' = TRUE
  /\ seq' = Lifted
  /\ IF delivered
       THEN /\ carried' = carried \union Page(cursor)
            /\ cursor' \in CursorAfter(Page(cursor))
       ELSE UNCHANGED serverVars
  /\ UNCHANGED << clock, up, entries, lines, diskVars, backup, waiting, issued >>

Carry == After(cursor) # {} /\ PageServed(TRUE)

(* What happens to the file from outside: it is copied, an old copy is put *)
(* back, or it is deleted, while the manager is down.                      *)
TakeBackup == /\ backup' = file
              /\ UNCHANGED << clock, memoryVars, diskVars, waiting, issued, serverVars >>

RestoreBackup == /\ ~up /\ file' = backup /\ tail' = NoTail
                 /\ UNCHANGED << clock, memoryVars, backup, waiting, issued, serverVars >>

LoseFile == /\ ~up /\ file' = {} /\ tail' = NoTail
            /\ UNCHANGED << clock, memoryVars, backup, waiting, issued, serverVars >>

-----------------------------------------------------------------------------
Next == \/ Tick \/ SetBack \/ Load \/ Crash
        \/ \E d \in Deeds : Record(d) \/ RecordFails(d) \/ CrashInAppend(d)
        \/ \E delivered \in BOOLEAN : PageServed(delivered)
        \/ TakeBackup \/ RestoreBackup \/ LoseFile

(* The app asks once an hour and gets its answer some day.                 *)
Fairness == WF_vars(Carry)

Spec == Init /\ [][Next]_vars /\ Fairness

-----------------------------------------------------------------------------
(* Every variable stays in the set its comment names.                      *)
TypeOK ==
  /\ clock \in Nat /\ seq \in Nat /\ lines \in Nat /\ cursor \in Nat
  /\ up \in BOOLEAN /\ polled \in BOOLEAN
  /\ entries \subseteq Row /\ file \subseteq Row /\ backup \subseteq Row
  /\ tail \in Row \union {NoTail, Garbage}
  /\ waiting \subseteq Deeds
  /\ issued \subseteq Row /\ carried \subseteq Row

(* No number is given to two rows, whatever was lost, restored or cut      *)
(* short between two lives of the journal: a repeated number costs a row.  *)
NumberedOnce == \A r, q \in issued : r.seq = q.seq => r = q

(* Once the app has asked for a page, a row recorded from now on will be   *)
(* taken by the server: its number is above everything the server has,     *)
(* whatever the clock says.                                                *)
NewRowsAccepted == up /\ polled => cursor <= seq

(* A row that is served can be read again after a restart.                 *)
ServedRowsOnDisk == entries \subseteq Readable

(* The server's number never passes a row of this station that the server  *)
(* did not get.                                                            *)
NoRowPassedOver ==
  [][\A r \in entries : cursor < r.seq /\ r.seq <= cursor' => r \in carried']_vars

(* A row waiting to be carried is carried, unless the manager stops or the *)
(* row makes room for newer ones first.                                    *)
EveryRowCarried ==
  \A d \in Deeds :
    (\E r \in entries : r.deed = d /\ r.seq > cursor)
      ~> (\E r \in carried : r.deed = d) \/ ~(\E r \in entries : r.deed = d)

(* The journal keeps its promise to the server.                            *)
Promise == INSTANCE JournalPromise WITH Numbers <- 1 .. MaxClock
PromiseKept == Promise!Spec
=============================================================================
