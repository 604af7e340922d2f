------------------------------ MODULE AuditLog ------------------------------
(***************************************************************************)
(* The JSONL audit log: JsonlAuditLogger.write (audit/logger.py) from      *)
(* several threads or processes that append to one file, and its readers   *)
(* (audit/query.py).                                                       *)
(*                                                                         *)
(* The file is a sequence of pieces.  Python buffers what write() is given *)
(* and hands it to the file when the handle is closed, so that an event    *)
(* and its newline are appended together, unless the event is longer than  *)
(* the buffer (8 KiB: an upstream error body in the metadata, say): then   *)
(* its text is appended at once and the newline only at the close.         *)
(*                                                                         *)
(* An operator whose name starts with Faulty is a mutant of the definition *)
(* that follows it.                                                        *)
(***************************************************************************)
EXTENDS Integers, Sequences, SequencesExt

CONSTANTS
    Processes,  \* threads and processes that log to the file
    Writes,     \* calls of write
    Events,     \* events they may log
    None        \* no value

ASSUME EventsAssumption ==
    Events \subseteq [rid : STRING, stage : STRING, decision : STRING,
                      rules : SUBSET STRING, long : BOOLEAN, separator : BOOLEAN]
ASSUME WritesAssumption == None \notin Writes

VARIABLES
    file,       \* the file's pieces, oldest first
    event,      \* the event of each write
    pc,         \* where each write is
    busy        \* the write each process is in the middle of, or None

vars == <<file, event, pc, busy>>

Body(w) == [kind |-> "body", of |-> w]      \* the JSON text of an event
Part(w) == [kind |-> "part", of |-> w]      \* some of that text
Newline == [kind |-> "break", of |-> None]

(* The characters U+0085, U+2028 and U+2029 go through model_dump_json as  *)
(* they are, and str.splitlines breaks a line at each.                     *)
Text(w, e) == IF e.separator THEN <<Part(w), Newline, Part(w)>> ELSE <<Body(w)>>

-----------------------------------------------------------------------------
(* write.                                                                  *)

Done(w, place) == pc' = [pc EXCEPT ![w] = place]

FaultyWriteShort(p, w, e) ==                     \* the newline is not buffered
    /\ ~e.long
    /\ file' = file \o Text(w, e)
    /\ Done(w, "half") /\ busy' = [busy EXCEPT ![p] = w]
WriteShort(p, w, e) ==
    /\ ~e.long
    /\ file' = file \o Text(w, e) \o <<Newline>>
    /\ Done(w, "written") /\ UNCHANGED busy

FaultyWriteLong(p, w, e) ==                      \* opened with "w"
    /\ e.long
    /\ file' = Text(w, e)
    /\ Done(w, "half") /\ busy' = [busy EXCEPT ![p] = w]
WriteLong(p, w, e) ==
    /\ e.long
    /\ file' = file \o Text(w, e)
    /\ Done(w, "half") /\ busy' = [busy EXCEPT ![p] = w]

FaultyWriteFails(p, w, e) ==                     \* the OSError is swallowed
    /\ \E written \in {<<>>, <<Part(w)>>, Text(w, e)} : file' = file \o written
    /\ Done(w, "written") /\ UNCHANGED busy
(* The disk is full, or the close fails: nothing, some or all of the line  *)
(* is written, and write raises.                                           *)
WriteFails(p, w, e) ==
    /\ \E written \in {<<>>, <<Part(w)>>, Text(w, e), Text(w, e) \o <<Newline>>} :
          file' = file \o written
    /\ Done(w, "failed") /\ UNCHANGED busy

Write(p) ==
    /\ busy[p] = None
    /\ \E w \in Writes, e \in Events :
          /\ pc[w] = "new"
          /\ event' = [event EXCEPT ![w] = e]
          /\ WriteShort(p, w, e) \/ WriteLong(p, w, e) \/ WriteFails(p, w, e)

(* The handle of a long event is closed.                                   *)
Close(p) ==
    /\ busy[p] # None
    /\ file' = Append(file, Newline)
    /\ Done(busy[p], "written")
    /\ busy' = [busy EXCEPT ![p] = None]
    /\ UNCHANGED event

(* It raises, with or without the newline in the file.                     *)
CloseFails(p) ==
    /\ busy[p] # None
    /\ file' \in {file, Append(file, Newline)}
    /\ Done(busy[p], "failed")
    /\ busy' = [busy EXCEPT ![p] = None]
    /\ UNCHANGED event

(* The process dies between the two appends, and comes back.               *)
Crash(p) ==
    /\ busy[p] # None
    /\ Done(busy[p], "lost")
    /\ busy' = [busy EXCEPT ![p] = None]
    /\ UNCHANGED <<file, event>>

Init ==
    /\ file = <<>>
    /\ event \in [Writes -> {None}]
    /\ pc = [w \in Writes |-> "new"]
    /\ busy = [p \in Processes |-> None]

Next == \E p \in Processes : Write(p) \/ Close(p) \/ CloseFails(p) \/ Crash(p)

Spec == Init /\ [][Next]_vars

-----------------------------------------------------------------------------
(* The readers.                                                            *)

(* read_text().splitlines() without the blank lines: a line begins with    *)
(* its first piece and takes the next ones in for as long as it is open.   *)
Take(reading, piece) ==
    IF piece = Newline
    THEN [reading EXCEPT !.open = FALSE]
    ELSE [lines |-> IF reading.open
                    THEN [reading.lines EXCEPT ![Len(reading.lines)] = Append(@, piece)]
                    ELSE Append(reading.lines, <<piece>>),
          open  |-> TRUE]

NothingRead == [lines |-> <<>>, open |-> FALSE]

Lines == FoldLeft(Take, NothingRead, file).lines

(* json.loads takes the text of one whole event, and raises otherwise.     *)
Parses(line) == Len(line) = 1 /\ line[1].kind = "body"

(* One line that does not parse fails every query and replay.              *)
Readable == \A i \in DOMAIN Lines : Parses(Lines[i])

(* iter_audit_events of a readable file.                                   *)
AuditEvents == [i \in DOMAIN Lines |-> Lines[i][1].of]

Matches(w, filter) ==
    /\ filter.rid # "" => event[w].rid = filter.rid
    /\ filter.stage # "" => event[w].stage = filter.stage
    /\ filter.decision # "" => event[w].decision = filter.decision
    /\ filter.rule # "" => filter.rule \in event[w].rules

(* results[-limit:], which for 0 is all of them.                           *)
Latest(results, limit) ==
    IF limit \in 1..Len(results)
    THEN SubSeq(results, Len(results) - limit + 1, Len(results))
    ELSE results

Collect(filter, results, w) ==
    IF Matches(w, filter) THEN Append(results, w) ELSE results

Matching(filter, events) ==
    FoldLeft(LAMBDA results, w : Collect(filter, results, w), <<>>, events)

FaultyQuery(filter, limit) ==                    \* limits before it filters
    Matching(filter, Latest(AuditEvents, limit))
Query(filter, limit) ==
    Latest(Matching(filter, AuditEvents), limit)

-----------------------------------------------------------------------------
(* Properties.                                                             *)

Written == {w \in Writes : pc[w] = "written"}

(* Short events never spoil the file, whoever writes at the same time:     *)
(* a line that does not parse has a piece of an event that was cut off by  *)
(* a fault or a crash, of a long one, or of one that holds a separator.    *)
OnlyTornLinesBreakTheLog ==
    \A i \in DOMAIN Lines :
        ~Parses(Lines[i]) =>
            \E k \in DOMAIN Lines[i] :
                LET w == Lines[i][k].of
                IN  pc[w] = "failed" \/ event[w].long \/ event[w].separator

(* As long as the log can be read, it holds every event whose write        *)
(* returned, and no event twice.                                           *)
WrittenIsRead ==
    Readable =>
        /\ Written \subseteq {AuditEvents[i] : i \in DOMAIN AuditEvents}
        /\ \A i, j \in DOMAIN AuditEvents : i # j => AuditEvents[i] # AuditEvents[j]

CONSTANT Filters    \* filters a reviewer may ask for

(* A query with a limit answers with the latest events that match all of   *)
(* its filters: one is left out only for as many later ones.               *)
LatestMatchesAreReturned ==
    Readable =>
        \A filter \in Filters, limit \in 1..Len(AuditEvents) :
            LET result   == Query(filter, limit)
                place(w) == CHOOSE i \in DOMAIN AuditEvents : AuditEvents[i] = w
                returned == {result[i] : i \in DOMAIN result}
            IN  \A i \in DOMAIN AuditEvents :
                    LET w == AuditEvents[i]
                    IN  IF w \in returned
                        THEN Matches(w, filter)
                        ELSE Matches(w, filter) =>
                                /\ Len(result) = limit
                                /\ \A v \in returned : place(v) > i

(* Readers see an append-only store of whole events (AuditStore).          *)
Store == INSTANCE AuditStore WITH log <- IF Readable THEN AuditEvents ELSE <<>>,
                                  ok  <- Readable
ReadersSeeAStore == Store!Spec

-----------------------------------------------------------------------------
(* What the repository says of the log and the code does not do.           *)

(* AUDIT_SPEC.md:62: audit logs can be queried; so what was written can be *)
(* found again, unless a fault or a crash tore the file.                   *)
WrittenCanBeQueried ==
    (\A w \in Writes : pc[w] \in {"new", "half", "written"}) =>
        /\ Readable
        /\ Written \subseteq {AuditEvents[i] : i \in DOMAIN AuditEvents}
=============================================================================
