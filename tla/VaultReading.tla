---------------------------- MODULE VaultReading ----------------------------
(***************************************************************************)
(* Reading an unlocked version: walking a listing page by page (a browse,  *)
(* the lookup of a path, an overview, a conversation) and downloading one  *)
(* file.  The index never changes, every page is a fresh query, and all    *)
(* that a walk carries from page to page is the cursor.                    *)
(*                                                                         *)
(* A row is [bad, size, disk]: whether the parser can decode it, the size  *)
(* the index records and the bytes the backup holds.  A row's position is  *)
(* its place in the listing's order, which is a total one, and its name.   *)
(***************************************************************************)
EXTENDS Naturals, Sequences, FiniteSets

CONSTANTS
    Versions,      \* [arm, rows, want, limit] a run looks at
    DefaultLimit, MaxLimit,
    Chunk          \* io.Copy's buffer

Arms == {"encrypted", "unencrypted", "overview", "thread"}

RowRecs == [bad : BOOLEAN, size : Nat, disk : Nat]

ASSUME ReadingAssumption ==
    /\ \A v \in Versions : v.arm \in Arms /\ v.rows \in Seq(RowRecs) /\ v.want \in Nat /\ v.limit \in Nat
    /\ DefaultLimit \in Nat \ {0} /\ MaxLimit \in Nat /\ DefaultLimit <= MaxLimit /\ Chunk \in Nat \ {0}

VARIABLES
    look,   \* the version, and what is asked of it
    walk,   \* the walk: the last cursor (0 is none), what was returned, where it stands
    file    \* the download: bytes sent, what the browse listing will say of the file

readVars == <<look, walk, file>>

Off == [arm |-> "overview", rows |-> << >>, want |-> 0, limit |-> 0]

ReadTypeOK ==
    /\ look \in Versions \cup {Off}
    /\ walk \in [cursor : Nat, seen : Seq(Nat), at : {"walk", "done", "stat", "stream", "locked"}]
    /\ walk.cursor <= Len(look.rows)
    /\ file \in [sent : Nat, read : Nat, mark : {"none", "incomplete", "overlong"},
                 end : {"none", "whole", "broken", "notFound"}]

ReadInit(versions) ==
    /\ look \in versions
    /\ walk = [cursor |-> 0, seen |-> << >>, at |-> IF look = Off THEN "done" ELSE "walk"]
    /\ file = [sent |-> 0, read |-> 0, mark |-> "none", end |-> "none"]

-----------------------------------------------------------------------------
(* Pages                                                                   *)

ClampLimit(requested) ==
    CASE requested = 0 -> DefaultLimit [] requested > MaxLimit -> MaxLimit [] OTHER -> requested

\* The cursor names the last row returned; the query starts after it.
After(cursor) == [i \in 1..(Len(look.rows) - cursor) |-> cursor + i]

Firsts(s, n) == SubSeq(s, 1, IF n < Len(s) THEN n ELSE Len(s))
Ending(s) == IF s = << >> THEN 0 ELSE s[Len(s)]

\* encrypted.List stops at the limit and names the row it stopped at, the
\* last one of all included.
ListEncrypted(cursor, limit) ==
    LET page == Firsts(After(cursor), limit) IN
    [rows |-> page, next |-> IF Len(page) = limit THEN Ending(page) ELSE 0]

\* Mutation: the query asks for no row more than the page holds.
ListNoProbe(cursor, limit) ==
    LET rows == Firsts(After(cursor), limit)  page == Firsts(rows, limit) IN
    [rows |-> page, next |-> IF Len(rows) > limit THEN Ending(page) ELSE 0]
\* unencrypted.List asks for one row more.
ListUnencrypted(cursor, limit) ==
    LET rows == Firsts(After(cursor), limit + 1)  page == Firsts(rows, limit) IN
    [rows |-> page, next |-> IF Len(rows) > limit THEN Ending(page) ELSE 0]

\* toWireOverview cuts the page out of all the domains.
Overview(cursor, limit) ==
    LET page == Firsts(After(cursor), limit) IN
    [rows |-> page, next |-> IF Len(page) < Len(After(cursor)) THEN Ending(page) ELSE 0]

\* The scan skips a row it cannot decode.
Decoded(s) ==
    LET kept[i \in 0..Len(s)] == IF i = 0 THEN << >>
                                 ELSE IF look.rows[s[i]].bad THEN kept[i - 1] ELSE Append(kept[i - 1], s[i])
    IN kept[Len(s)]

\* Thread asks for one row more, and drops the rows it cannot decode first.
Thread(cursor, limit) ==
    LET rows == Decoded(Firsts(After(cursor), limit + 1))
        page == Firsts(rows, limit) IN
    [rows |-> page, next |-> IF Len(rows) > limit THEN Ending(page) ELSE 0]

List(cursor, limit) ==
    CASE look.arm = "encrypted" -> ListEncrypted(cursor, limit)
      [] look.arm = "unencrypted" -> ListUnencrypted(cursor, limit)
      [] look.arm = "overview" -> Overview(cursor, limit)
      [] look.arm = "thread" -> Thread(cursor, limit)

-----------------------------------------------------------------------------
(* Walks                                                                   *)

\* resolvePath and parserfs.lookup stop at the row they look for.
Found(page) == \E i \in 1..Len(page.rows) : page.rows[i] = look.want

\* One page of a browse, an overview or a conversation.
NextPage ==
    /\ walk.at = "walk" /\ look.want = 0
    /\ LET page == List(walk.cursor, ClampLimit(look.limit)) IN
       walk' = [cursor |-> page.next, seen |-> walk.seen \o page.rows,
                at |-> IF page.next = 0 THEN "done" ELSE "walk"]
    /\ UNCHANGED <<look, file>>

\* One page of the walk for a path: found, absent, or on to the next page.
ResolvePath ==
    /\ walk.at = "walk" /\ look.want # 0
    /\ LET page == List(walk.cursor, ClampLimit(0)) IN
       /\ walk' = [cursor |-> page.next, seen |-> walk.seen \o page.rows,
                   at |-> IF Found(page) THEN "stat" ELSE IF page.next = 0 THEN "done" ELSE "walk"]
       /\ file' = IF ~Found(page) /\ page.next = 0 THEN [file EXCEPT !.end = "notFound"] ELSE file
    /\ UNCHANGED look

\* The session ended between two pages.
Locked == walk.at = "walk" /\ walk' = [walk EXCEPT !.at = "locked"] /\ UNCHANGED <<look, file>>

-----------------------------------------------------------------------------
(* The download                                                            *)

Row == look.rows[look.want]
Ends(end, mark) == file' = [file EXCEPT !.end = end, !.mark = mark] /\ walk' = [walk EXCEPT !.at = "done"]

\* Stat and Open: the recorded size is announced as the Content-Length.
OpenStream == walk.at = "stat" /\ walk' = [walk EXCEPT !.at = "stream"] /\ UNCHANGED <<look, file>>

\* boundedFile.remaining; the decrypting writer is not bounded.
Left == IF look.arm = "encrypted" THEN Chunk ELSE Row.size - file.read

\* Bytes that are there, no more than is left; net/http refuses a write that
\* goes past the announced length, whole.
ReadBytes ==
    /\ walk.at = "stream" /\ Left > 0 /\ file.read < Row.disk
    /\ \E n \in 1..Chunk :
          /\ n <= Left /\ n <= Row.disk - file.read
          /\ IF file.sent + n > Row.size THEN Ends("broken", "none")
             ELSE file' = [file EXCEPT !.read = @ + n, !.sent = @ + n] /\ UNCHANGED walk
    /\ UNCHANGED look

\* ErrIncompleteFile: every byte there is was sent, and the listing will say so.
ShortFile == Ends("broken", "incomplete")

\* The blob ends before the recorded size does; a record that announces as
\* much as there is ends well.
EndOfBlob ==
    /\ walk.at = "stream" /\ Left > 0 /\ file.read = Row.disk
    /\ IF Row.disk < Row.size THEN ShortFile ELSE Ends("whole", "none")
    /\ UNCHANGED look

\* Everything recorded was sent: one byte more is looked for, and an answer
\* that is complete stays one.
Overlong == Ends("whole", IF Row.disk > Row.size THEN "overlong" ELSE "none")

EndOfFile == walk.at = "stream" /\ Left = 0 /\ Overlong /\ UNCHANGED look

ReadStep == NextPage \/ ResolvePath \/ OpenStream \/ ReadBytes \/ EndOfBlob \/ EndOfFile
ReadNext == ReadStep \/ Locked

\* A conversation with a row that cannot be decoded is left out: its pages may
\* stop short (ThreadReachesAll).
Legible(v) == v.arm = "thread" => \A i \in 1..Len(v.rows) : ~v.rows[i].bad
ReadSpec == ReadInit({v \in Versions : Legible(v)}) /\ [][ReadNext]_readVars

-----------------------------------------------------------------------------
(* Properties                                                              *)

\* A client that follows the cursors is shown every row once, in order, the
\* row at each page boundary included.
PagesOnce == /\ \A i \in 1..Len(walk.seen) - 1 : walk.seen[i] < walk.seen[i + 1]
             /\ walk.at = "walk" => walk.cursor = Ending(walk.seen)
PagesReachAll ==
    walk.at = "done" /\ look.want = 0 => {walk.seen[i] : i \in 1..Len(walk.seen)} = 1..Len(look.rows)

\* A path is found exactly when the version has it, however many pages away.
ResolveTrue ==
    /\ file.end = "notFound" => look.want > Len(look.rows)
    /\ walk.at \in {"stat", "stream"} => look.want <= Len(look.rows)

\* A download that looks whole to the client is; what the listing says of the
\* file afterwards is what the backup holds; and a short file gives up every
\* byte it has.
DownloadTrue ==
    /\ look.want \in 1..Len(look.rows) => file.sent <= Row.size
    /\ file.end = "whole" => file.sent = Row.size /\ Row.disk >= Row.size
                             /\ (file.mark = "overlong" <=> Row.disk > Row.size)
    /\ file.end = "broken" /\ Row.disk < Row.size => file.sent = Row.disk /\ file.mark = "incomplete"
    /\ file.mark = "incomplete" => Row.disk < Row.size
\* What a client reads of a version is the version: every row once, every path,
\* every byte.
ReadsTrue == PagesOnce /\ PagesReachAll /\ ResolveTrue /\ DownloadTrue

\* What a walk has returned is the rows up to its cursor, and what it looks for
\* is not among them.
WalkTrue ==
    /\ walk.seen = [i \in 1..Len(walk.seen) |-> i] /\ Len(walk.seen) <= Len(look.rows)
    /\ walk.at = "walk" => walk.cursor = Len(walk.seen) /\ (look.want # 0 => look.want > Len(walk.seen))
    /\ walk.at = "done" /\ look.want = 0 => Len(walk.seen) = Len(look.rows)
    /\ walk.at \in {"stat", "stream"} => look.want # 0

\* What was read was sent, of a file that is there, and nothing before it is open.
FileTrue ==
    /\ file.sent = file.read
    /\ walk.at \in {"walk", "stat", "stream", "locked"} => file.end = "none" /\ file.mark = "none"
    /\ walk.at # "stream" /\ file.end \in {"none", "notFound"} => file.sent = 0 /\ file.mark = "none"
    /\ file.end \in {"whole", "broken"} \/ walk.at = "stream" =>
          look.want \in 1..Len(look.rows) /\ file.sent <= Row.disk

\* The inductive invariant behind ReadsTrue.
ReadInv == ReadTypeOK /\ Legible(look) /\ WalkTrue /\ FileTrue /\ ResolveTrue /\ DownloadTrue

\* A walk and a download end.
WalkEnds == <>(walk.at \in {"done", "locked"})

\* What Page.NextCursor's comment says: it is empty on the last page.
NoEmptyPage == walk.at = "walk" /\ walk.cursor # 0 => After(walk.cursor) # << >>

\* What Thread's warning says is missing from the view: only the messages
\* that could not be read.
ThreadReachesAll ==
    walk.at = "done" => \A i \in 1..Len(look.rows) : look.rows[i].bad \/ \E j \in 1..Len(walk.seen) : walk.seen[j] = i
=============================================================================
