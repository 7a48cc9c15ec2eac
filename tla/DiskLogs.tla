------------------------------ MODULE DiskLogs ------------------------------
(***************************************************************************)
(* The log page (logging/disklogs.go, server/logs_disk.go, web/app.js) over *)
(* the daily files of the process (logging/logging.go, retention.go).  The  *)
(* page shows the end of the newest file, polls for what has been added,    *)
(* and loads what is earlier; its cursors are a day and an offset, and one  *)
(* that does not fit a file any more is answered with a new tail and an     *)
(* announced gap.  The files are written and removed while a request reads  *)
(* them.  A file is a sequence of bytes that say whether they end a line.   *)
(***************************************************************************)
EXTENDS Naturals, SequencesExt

CONSTANTS
  Chunk, ScanBytes, MaxPayload,   \* diskLogChunk, diskLogScanBytes, diskLogMaxPayload
  PageLimit,                      \* DiskLogQuery.Limit
  LineLengths,                    \* bound: the lines that are written, with their newline
  MaxDay, MaxBytes                \* bounds: days, and bytes of a day

ASSUME LogAssumption ==
  /\ Chunk \in Nat \ {0} /\ ScanBytes \in Nat \ {0} /\ PageLimit \in Nat \ {0}
  /\ MaxPayload \in Nat /\ MaxDay \in Nat \ {0} /\ MaxBytes \in Nat
  /\ LineLengths \subseteq Nat \ {0}

VARIABLES
  logs,     \* app-<day>.log, for the days that have one
  today,    \* DailyWriter.day
  after,    \* the client's cursor for polling
  before,   \* its cursor for what is earlier
  shown,    \* the items it has, as places <<day, start>>
  first,    \* history: the cursor for what is earlier, when the page was loaded
  request   \* the request that is served: the page aborts one before it sends another

logVars == <<logs, today, after, before, shown, first, request>>

NoRequest == [at |-> "none"]
NoCursor == <<0, 0>>

LogInit ==
  /\ logs = [d \in {1} |-> <<>>] /\ today = 1 /\ after = NoCursor /\ before = NoCursor
  /\ shown = {} /\ first = NoCursor /\ request = NoRequest

Earlier(p, q) == p[1] < q[1] \/ (p[1] = q[1] /\ p[2] < q[2])
Files == DOMAIN logs
atBoundary(data, offset) == offset > 0 => data[offset]
ReadableRefs(c) ==
  c[1] \in Files /\ c[2] <= Len(logs[c[1]]) /\ atBoundary(logs[c[1]], c[2])

EndsIn(data, low, high) == {e \in low + 1 .. high : data[e]}

\* The places of the whole lines of a day.
LinesOf(d) ==
  {s \in 0 .. Len(logs[d]) - 1 :
     atBoundary(logs[d], s) /\ EndsIn(logs[d], s, Len(logs[d])) # {}}

-----------------------------------------------------------------------------
(* The writer *)

Appends(bytes) ==
  /\ Len(logs[today]) + Len(bytes) <= MaxBytes
  /\ logs' = [logs EXCEPT ![today] = @ \o bytes]
  /\ UNCHANGED <<today, after, before, shown, first, request>>

WriteLine == \E n \in LineLengths : Appends([i \in 1 .. n |-> i = n])

\* A write that is read before it is complete, or cut short by a crash or a full
\* disk; what is written next goes on with it.
WriteHalf == \E n \in LineLengths : \E k \in 1 .. n - 1 : Appends([i \in 1 .. k |-> FALSE])

\* The first write of a day opens its file.
NextDay ==
  /\ today < MaxDay /\ today' = today + 1
  /\ logs' = [d \in Files \cup {today'} |-> IF d \in Files THEN logs[d] ELSE <<>>]
  /\ UNCHANGED <<after, before, shown, first, request>>

\* cleanupLocked removes file by file, in the order of the directory, and spares
\* the one that is open.
PurgeLog ==
  /\ \E d \in Files \ {today} : logs' = [e \in Files \ {d} |-> logs[e]]
  /\ UNCHANGED <<today, after, before, shown, first, request>>

\* Cursors are signed with a key of the process: the next one refuses them, until
\* the page is loaded again.
RestartLogs ==
  /\ after' = NoCursor /\ before' = NoCursor /\ first' = NoCursor /\ request' = NoRequest
  /\ UNCHANGED <<logs, today, shown>>

-----------------------------------------------------------------------------
(* tailRefs: the last whole lines in front of an offset *)

\* The window grows by chunks until it has more lines than asked for.
Windows(end) == {end - Min({k * Chunk, end, ScanBytes}) : k \in 0 .. end}
WindowStart(data, end, limit) ==
  LET full == {low \in Windows(end) : Cardinality(EndsIn(data, low, end)) > limit}
  IN IF full = {} THEN Min(Windows(end)) ELSE Max(full)

\* What begins the window is taken for a line, whether it does or not.
TailRefs(d, end, limit) ==
  LET low    == WindowStart(logs[d], end, limit)
      ends   == EndsIn(logs[d], low, end)
      starts == {s \in {low} \cup ends : s + 1 \notin ends /\ \E e \in ends : s < e}
      last   == {s \in starts : Cardinality({t \in starts : t > s}) < limit}
  IN [refs |-> {<<d, s>> : s \in last},
      next |-> IF ends = {} THEN low ELSE Max(ends)]

FirstRef(refs) ==
  LET d == Min({p[1] : p \in refs}) IN <<d, Min({p[2] : p \in {q \in refs : q[1] = d}})>>

\* readTail: the page is loaded, for the first time or after a gap.
LoadTail ==
  LET d    == Max(Files)
      tail == TailRefs(d, Len(logs[d]), PageLimit)
      low  == IF tail.refs = {} THEN NoCursor ELSE FirstRef(tail.refs)
  IN /\ shown' = tail.refs /\ after' = <<d, tail.next>>
     /\ before' = low /\ first' = low /\ request' = NoRequest

OpenPage == LoadTail /\ UNCHANGED <<logs, today>>

-----------------------------------------------------------------------------
(* readBefore *)

LoadEarlier ==
  /\ before # NoCursor /\ request = NoRequest
  /\ IF ReadableRefs(before)
     THEN /\ request' = [at |-> "earlier", left |-> {d \in Files : d <= before[1]},
                         refs |-> {}]
          /\ UNCHANGED <<after, before, shown, first>>
     ELSE LoadTail
  /\ UNCHANGED <<logs, today>>

\* gatherBefore goes on to the day before while it has not enough.
GatherFile ==
  /\ request.at = "earlier" /\ request.left # {} /\ Cardinality(request.refs) < PageLimit
  /\ LET d   == Max(request.left)
         end == IF d = before[1] THEN before[2] ELSE Len(logs[d])
     IN request' =
          IF d \notin Files THEN NoRequest
          ELSE [request EXCEPT
                  !.left = @ \ {d},
                  !.refs = @ \cup TailRefs(d, end, PageLimit - Cardinality(@)).refs]
  /\ UNCHANGED <<logs, today, after, before, shown, first>>

\* readItems opens the files once more.
EndEarlier ==
  /\ request.at = "earlier"
  /\ request.left = {} \/ Cardinality(request.refs) = PageLimit
  /\ IF \E p \in request.refs : p[1] \notin Files THEN UNCHANGED <<before, shown>>
     ELSE /\ shown' = shown \cup request.refs
          /\ before' = IF request.refs = {} THEN before ELSE FirstRef(request.refs)
  /\ request' = NoRequest /\ UNCHANGED <<logs, today, after, first>>

-----------------------------------------------------------------------------
(* readAfter *)

BeginPoll ==
  /\ after # NoCursor /\ request = NoRequest
  /\ IF ReadableRefs(after)
     THEN /\ request' = [at |-> "file", left |-> {d \in Files : d >= after[1]},
                         day |-> after[1], data |-> <<>>, start |-> 0, next |-> 0, end |-> 0,
                         items |-> <<>>, scanned |-> 0, bytes |-> 0, last |-> after]
          /\ UNCHANGED <<after, before, shown, first>>
     ELSE LoadTail
  /\ UNCHANGED <<logs, today>>

StartIn(d) == IF d = after[1] THEN after[2] ELSE 0

\* The next file, whatever was left unread of the one before, as long as it is when
\* it is opened; it may have been removed, which is an error, and the page keeps
\* its cursor.
OpenFile ==
  /\ request.at = "file" /\ request.left # {} /\ Len(request.items) < PageLimit
  /\ LET d == Min(request.left)
     IN request' = IF d \notin Files THEN NoRequest
                   ELSE [request EXCEPT !.at = "chunk", !.left = @ \ {d}, !.day = d,
                                        !.data = logs[d], !.start = StartIn(d)]
  /\ UNCHANGED <<logs, today, after, before, shown, first>>

MoreToRead(p) ==
  p.start < Len(p.data) /\ Len(p.items) < PageLimit /\ p.scanned < ScanBytes

ReadChunk ==
  /\ request.at = "chunk"
  /\ request' =
       IF ~MoreToRead(request) THEN [request EXCEPT !.at = "file"]
       ELSE LET n == Min({Chunk, Len(request.data) - request.start,
                          ScanBytes - request.scanned})
            IN [request EXCEPT !.at = "lines", !.next = request.start,
                               !.end = request.start + n, !.scanned = @ + n]
  /\ UNCHANGED <<logs, today, after, before, shown, first>>

\* The next line ends in the chunk, and its payload goes into the answer.
Takes(p, e) ==
  /\ Len(p.items) < PageLimit
  /\ p.data[e] /\ EndsIn(p.data, p.next, e - 1) = {}
  /\ p.bytes + (e - p.next - 1) <= MaxPayload

TakeLine ==
  /\ request.at = "lines"
  /\ \E e \in request.next + 1 .. request.end :
       /\ Takes(request, e)
       /\ request' = [request EXCEPT !.items = Append(@, <<request.day, request.next>>),
                                     !.bytes = @ + (e - request.next - 1), !.next = e]
  /\ UNCHANGED <<logs, today, after, before, shown, first>>

\* Seeded fault: the half line at the end of a chunk counts as read.
ConsumedAll(p) == p.end

Consumed(p) == p.next

\* A chunk that ended with a line, or had none, is the last of its file.
LeaveChunk ==
  /\ request.at = "lines"
  /\ \A e \in request.next + 1 .. request.end : ~Takes(request, e)
  /\ LET used == Consumed(request)
         done == used \in {request.start, request.end} \/ Len(request.items) = PageLimit
     IN request' = [request EXCEPT !.at = IF done THEN "file" ELSE "chunk",
                                   !.start = used, !.last = <<request.day, used>>]
  /\ UNCHANGED <<logs, today, after, before, shown, first>>

EndPoll ==
  /\ request.at = "file" /\ (request.left = {} \/ Len(request.items) = PageLimit)
  /\ shown' = shown \cup ToSet(request.items) /\ after' = request.last
  /\ request' = NoRequest
  /\ UNCHANGED <<logs, today, before, first>>

\* A time limit, a pause, or another request of the page.
AbortRequest ==
  /\ request # NoRequest /\ request' = NoRequest
  /\ UNCHANGED <<logs, today, after, before, shown, first>>

LogNext ==
  \/ WriteLine \/ WriteHalf \/ NextDay \/ PurgeLog \/ RestartLogs
  \/ OpenPage \/ LoadEarlier \/ GatherFile \/ EndEarlier
  \/ BeginPoll \/ OpenFile \/ ReadChunk \/ TakeLine \/ LeaveChunk \/ EndPoll
  \/ AbortRequest

LogSpec == LogInit /\ [][LogNext]_logVars

-----------------------------------------------------------------------------
(* Properties *)

Days == 1 .. MaxDay
Places == (0 .. MaxDay) \X Nat

PollRequests ==
  [at : {"file", "chunk", "lines"}, left : SUBSET Days, day : Days,
   data : Seq(BOOLEAN), start : Nat, next : Nat, end : Nat, items : Seq(Days \X Nat),
   scanned : 0 .. ScanBytes, bytes : 0 .. MaxPayload, last : Places]
EarlierRequests == [at : {"earlier"}, left : SUBSET Days, refs : SUBSET (Days \X Nat)]

LogTypeOK ==
  /\ Files \subseteq Days /\ today \in Files
  /\ logs \in [Files -> Seq(BOOLEAN)] /\ \A d \in Files : Len(logs[d]) <= MaxBytes
  /\ after \in Places /\ before \in Places /\ first \in Places
  /\ shown \subseteq Days \X Nat
  /\ request \in {NoRequest} \cup PollRequests \cup EarlierRequests

\* The bytes that follow a cursor are more than a request scans, and end no line.
InLongLine(c) ==
  /\ c[2] + ScanBytes <= Len(logs[c[1]])
  /\ EndsIn(logs[c[1]], c[2], c[2] + ScanBytes) = {}

\* What a poll answers, and its new cursor: whole lines in their order, from the old
\* cursor on and before the new one, and in the file where it ends, all of them.
AnswerIsExact ==
  LET items == request.items
  IN /\ \A i, j \in 1 .. Len(items) : i < j => Earlier(items[i], items[j])
     /\ \A i \in 1 .. Len(items) :
          /\ ~Earlier(items[i], after) /\ Earlier(items[i], request.last)
          /\ items[i][1] \in Files => items[i][2] \in LinesOf(items[i][1])
     /\ request.last[1] \in Files =>
          \A s \in LinesOf(request.last[1]) :
            ~Earlier(<<request.last[1], s>>, after) /\ s < request.last[2]
              => \E i \in 1 .. Len(items) : items[i] = <<request.last[1], s>>

\* A poll is exact, and it gives up its place only when the file of its cursor has
\* been removed, or when the page was loaded in a line longer than a scan.
PollIsExact ==
  [][/\ EndPoll => AnswerIsExact
     /\ BeginPoll /\ request' = NoRequest => after[1] \notin Files \/ InLongLine(after)]_logVars

\* README.md says that loading what is earlier skips nothing, over midnight and
\* over half lines: what lies between its cursor and the tail has been shown.
EarlierSkipsNothing ==
  \A d \in Files : \A s \in LinesOf(d) :
    ~Earlier(<<d, s>>, before) /\ Earlier(<<d, s>>, first) => <<d, s>> \in shown
==============================================================================
