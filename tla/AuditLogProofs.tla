--------------------------- MODULE AuditLogProofs ---------------------------
(***************************************************************************)
(* Proofs about the audit log's file, for any number of writers, writes    *)
(* and events: what spoils a line, that what was written can be read, that *)
(* a query answers with the latest matches, and that readers see the       *)
(* append-only store of AuditStore.                                        *)
(***************************************************************************)
EXTENDS AuditLog, SequenceTheorems, TLAPS

-----------------------------------------------------------------------------
(* Reading, piece by piece.                                                *)

Pieces == [kind : {"body", "part", "break"}, of : Writes \cup {None}]

Read(pieces) == FoldLeft(Take, NothingRead, pieces)

WellRead(r) ==
    /\ r = [lines |-> r.lines, open |-> r.open]
    /\ r.lines \in Seq(Seq(Pieces)) /\ r.open \in BOOLEAN
    /\ r.open => r.lines # <<>>
    /\ \A i \in DOMAIN r.lines : r.lines[i] # <<>>

TakeIn(context, r, x) == Take(r, x)
WellReadIn(context, r) == WellRead(r)

Reading == INSTANCE FoldLemmas WITH Step <- TakeIn, Holds <- WellReadIn

LEMMA ReadIsFolded ==
    ASSUME NEW pieces
    PROVE  Read(pieces) = Reading!Folded(None, NothingRead, pieces)
BY DEF Read, TakeIn, Reading!Folded, FoldLeft, MapThenFoldSet, Max,
       Reading!FoldLeft, Reading!MapThenFoldSet, Reading!Max

LEMMA PieceTypes ==
    ASSUME NEW w \in Writes
    PROVE  /\ Body(w) \in Pieces /\ Body(w) # Newline /\ Body(w).of = w /\ Body(w).kind = "body"
           /\ Part(w) \in Pieces /\ Part(w) # Newline /\ Part(w).of = w /\ Part(w).kind = "part"
           /\ Newline \in Pieces
BY DEF Pieces, Body, Part, Newline

LEMMA NothingIsWellRead == WellRead(NothingRead)
<1>1. PICK r : r = NothingRead
  OBVIOUS
<1>2. r.lines = <<>> /\ r.open = FALSE /\ r = [lines |-> r.lines, open |-> r.open]
  BY <1>1 DEF NothingRead
<1>3. <<>> \in Seq(Seq(Pieces)) /\ DOMAIN <<>> = {}
  OBVIOUS
<1> QED BY <1>1, <1>2, <1>3 DEF WellRead

(* A line break closes the line.                                           *)
LEMMA TakeBreak ==
    ASSUME NEW r, WellRead(r)
    PROVE  /\ WellRead(Take(r, Newline))
           /\ Take(r, Newline).lines = r.lines /\ Take(r, Newline).open = FALSE
<1>1. PICK t : t = [r EXCEPT !.open = FALSE]
  OBVIOUS
<1>2. Take(r, Newline) = t
  BY <1>1 DEF Take
<1>3. t = [lines |-> r.lines, open |-> FALSE] /\ t.lines = r.lines /\ t.open = FALSE
  BY <1>1 DEF WellRead
<1> QED BY <1>2, <1>3 DEF WellRead

At(r, i, k) == i \in DOMAIN r.lines /\ k \in DOMAIN r.lines[i]

(* Any other piece takes a place of its own, in the open line or in a new  *)
(* one, and leaves every other piece where it is.                          *)
Placed(r, t, x, m, k) ==
    /\ ~At(r, m, k) /\ At(t, m, k) /\ t.lines[m][k] = x
    /\ DOMAIN t.lines = DOMAIN r.lines \cup {m}
    /\ \A i \in DOMAIN r.lines \ {m} : t.lines[i] = r.lines[i]
    /\ \A j \in DOMAIN t.lines[m] : j # k => At(r, m, j)
    /\ r.open => /\ m \in DOMAIN r.lines /\ m = Len(r.lines) /\ Len(t.lines[m]) > 1
                 /\ \A j \in DOMAIN r.lines[m] :
                       j \in DOMAIN t.lines[m] /\ t.lines[m][j] = r.lines[m][j]
    /\ ~r.open => m = Len(r.lines) + 1 /\ m \notin DOMAIN r.lines /\ t.lines[m] = <<x>>
    /\ m = Len(t.lines)

LEMMA TakePiece ==
    ASSUME NEW r, WellRead(r), NEW x \in Pieces, x # Newline
    PROVE  /\ WellRead(Take(r, x)) /\ Take(r, x).open
           /\ \E m, k \in Nat : Placed(r, Take(r, x), x, m, k)
<1> DEFINE S == Seq(Pieces)
<1>1. PICK lines : lines = r.lines
  OBVIOUS
<1>2. PICK n \in Nat : n = Len(lines) /\ DOMAIN lines = 1..n /\ lines \in Seq(S)
  BY <1>1 DEF WellRead
<1>3. PICK new : new = IF r.open THEN [lines EXCEPT ![n] = Append(@, x)] ELSE Append(lines, <<x>>)
  OBVIOUS
<1>4. PICK t : t = [lines |-> new, open |-> TRUE]
  OBVIOUS
<1>5. Take(r, x) = t /\ t.lines = new /\ t.open = TRUE
  BY <1>1, <1>2, <1>3, <1>4 DEF Take
<1>6. r.open \in BOOLEAN /\ \A i \in 1..n : lines[i] # <<>>
  BY <1>1, <1>2 DEF WellRead
<1>7. CASE r.open
  <2>1. n \in 1..n
    <3>1. lines # <<>>
      BY <1>1, <1>7 DEF WellRead
    <3> QED BY <1>2, <3>1
  <2>2. PICK last : last = lines[n]
    OBVIOUS
  <2>3. last \in Seq(Pieces) /\ last # <<>>
    BY <1>2, <1>6, <2>1, <2>2
  <2>4. PICK k \in Nat : k = Len(last) /\ DOMAIN last = 1..k /\ k > 0
    BY <2>3
  <2>5. PICK longer : longer = Append(last, x)
    OBVIOUS
  <2>6. /\ longer \in Seq(Pieces) /\ Len(longer) = k + 1 /\ DOMAIN longer = 1..(k + 1)
        /\ longer[k + 1] = x /\ \A j \in 1..k : longer[j] = last[j]
    BY <2>3, <2>4, <2>5, AppendProperties
  <2>7. new = [lines EXCEPT ![n] = longer]
    BY <1>3, <1>7, <2>2, <2>5
  <2>8. /\ new \in Seq(S) /\ Len(new) = n /\ DOMAIN new = 1..n /\ new[n] = longer
        /\ \A i \in 1..n : i # n => new[i] = lines[i]
    BY <1>2, <2>1, <2>6, <2>7
  <2>9. longer # <<>> /\ new # <<>>
    BY <2>1, <2>4, <2>6, <2>8
  <2>10. WellRead(t)
    <3>1. \A i \in DOMAIN new : new[i] # <<>>
      BY <1>6, <2>8, <2>9
    <3> QED BY <1>4, <1>5, <2>8, <2>9, <3>1 DEF WellRead
  <2>11. Placed(r, t, x, n, k + 1)
    <3>1. k + 1 \notin DOMAIN last /\ k + 1 \in DOMAIN longer
      BY <2>4, <2>6
    <3>2. \A j \in DOMAIN longer : j # k + 1 => j \in DOMAIN last
      BY <2>4, <2>6
    <3>3. DOMAIN new = DOMAIN lines \cup {n}
      BY <1>2, <2>1, <2>8
    <3>4. \A j \in DOMAIN last : j \in DOMAIN longer /\ longer[j] = last[j]
      BY <2>4, <2>6
    <3>5. Len(longer) > 1
      BY <2>4, <2>6
    <3> HIDE DEF S
    <3> QED BY <1>1, <1>2, <1>5, <1>7, <2>1, <2>2, <2>6, <2>8, <3>1, <3>2, <3>3, <3>4, <3>5
            DEF Placed, At
  <2> QED BY <1>5, <2>10, <2>11
<1>8. CASE ~r.open
  <2>1. PICK line : line = <<x>>
    OBVIOUS
  <2>2. line \in Seq(Pieces) /\ Len(line) = 1 /\ DOMAIN line = {1} /\ line[1] = x /\ line # <<>>
    BY <2>1
  <2>3. new = Append(lines, line)
    BY <1>3, <1>8, <2>1
  <2>4. /\ new \in Seq(S) /\ Len(new) = n + 1 /\ DOMAIN new = 1..(n + 1)
        /\ new[n + 1] = line /\ \A i \in 1..n : new[i] = lines[i]
    BY <1>2, <2>2, <2>3, AppendProperties
  <2>5. WellRead(t)
    <3>1. \A i \in DOMAIN new : new[i] # <<>>
      BY <1>6, <2>2, <2>4
    <3>2. new # <<>>
      BY <2>4
    <3> QED BY <1>4, <1>5, <2>4, <3>1, <3>2 DEF WellRead
  <2>6. Placed(r, t, x, n + 1, 1)
    <3>1. n + 1 \notin DOMAIN lines /\ DOMAIN new = DOMAIN lines \cup {n + 1}
      BY <1>2, <2>4
    <3> HIDE DEF S
    <3> QED BY <1>1, <1>2, <1>5, <1>8, <2>1, <2>2, <2>4, <3>1 DEF Placed, At
  <2> QED BY <1>5, <2>5, <2>6
<1> QED BY <1>6, <1>7, <1>8

LEMMA ReadNothing == Read(<<>>) = NothingRead
<1>1. Reading!Folded(None, NothingRead, <<>>) = NothingRead
  BY Reading!FoldEmpty
<1> QED BY <1>1, ReadIsFolded

LEMMA ReadAppend ==
    ASSUME NEW pieces \in Seq(Pieces), NEW x \in Pieces
    PROVE  Read(Append(pieces, x)) = Take(Read(pieces), x)
<1>1. Reading!Folded(None, NothingRead, Append(pieces, x))
        = TakeIn(None, Reading!Folded(None, NothingRead, pieces), x)
  BY Reading!FoldAppend
<1> QED BY <1>1, ReadIsFolded DEF TakeIn

LEMMA ReadIsWellRead ==
    ASSUME NEW pieces \in Seq(Pieces)
    PROVE  WellRead(Read(pieces))
<1>1. WellReadIn(None, NothingRead)
  BY NothingIsWellRead DEF WellReadIn
<1>2. ASSUME NEW k \in 1..Len(pieces), NEW r, WellReadIn(None, r)
      PROVE  WellReadIn(None, TakeIn(None, r, pieces[k]))
  <2>1. pieces[k] \in Pieces
    OBVIOUS
  <2>2. CASE pieces[k] = Newline
    BY <1>2, <2>2, TakeBreak DEF WellReadIn, TakeIn
  <2>3. CASE pieces[k] # Newline
    BY <1>2, <2>1, <2>3, TakePiece DEF WellReadIn, TakeIn
  <2> QED BY <2>2, <2>3
<1>3. WellReadIn(None, Reading!Folded(None, NothingRead, pieces))
  BY <1>1, <1>2, Reading!FoldHolds
<1> QED BY <1>3, ReadIsFolded DEF WellReadIn

-----------------------------------------------------------------------------
(* What is true of what has been read, when writes `begun` have been       *)
(* begun, `kept` have written all of their text, and `torn` are those that *)
(* were cut off, are long, or hold a separator.                            *)

Known(r, begun) ==
    \A i \in DOMAIN r.lines : \A k \in DOMAIN r.lines[i] : r.lines[i][k].of \in begun

(* No event's text is in two lines.                                        *)
Once(r) ==
    \A i, j \in DOMAIN r.lines : \A k \in DOMAIN r.lines[i], l \in DOMAIN r.lines[j] :
        r.lines[i][k].kind = "body" /\ r.lines[i][k] = r.lines[j][l] => i = j

Held(r, kept) ==
    \A w \in kept :
        \E i \in DOMAIN r.lines : \E k \in DOMAIN r.lines[i] : r.lines[i][k].of = w

Torn(line, torn) == \E k \in DOMAIN line : line[k].of \in torn

LinesTorn(r, torn) ==
    \A i \in DOMAIN r.lines : Parses(r.lines[i]) \/ Torn(r.lines[i], torn)

OpenTorn(r, torn) == r.open => Torn(r.lines[Len(r.lines)], torn)

ReadInv(r, begun, kept, torn) ==
    /\ WellRead(r) /\ Known(r, begun) /\ Once(r) /\ Held(r, kept)
    /\ LinesTorn(r, torn) /\ OpenTorn(r, torn)

LEMMA ReadInvGrows ==
    ASSUME NEW r, NEW begun, NEW kept, NEW torn, ReadInv(r, begun, kept, torn),
           NEW begun2, NEW kept2, NEW torn2,
           begun \subseteq begun2, kept2 \subseteq kept, torn \subseteq torn2
    PROVE  ReadInv(r, begun2, kept2, torn2)
BY DEF ReadInv, Known, Held, LinesTorn, OpenTorn, Torn

LEMMA BreakKeeps ==
    ASSUME NEW r, NEW begun, NEW kept, NEW torn,
           WellRead(r), Known(r, begun), Once(r), Held(r, kept), LinesTorn(r, torn)
    PROVE  ReadInv(Take(r, Newline), begun, kept, torn)
<1>1. PICK t : t = Take(r, Newline)
  OBVIOUS
<1>2. WellRead(t) /\ t.lines = r.lines /\ t.open = FALSE
  BY <1>1, TakeBreak
<1> QED BY <1>1, <1>2 DEF ReadInv, Known, Once, Held, LinesTorn, OpenTorn

LEMMA PieceKeeps ==
    ASSUME NEW r, NEW begun, NEW kept, NEW torn, ReadInv(r, begun, kept, torn),
           NEW x \in Pieces, x # Newline
    PROVE  /\ WellRead(Take(r, x)) /\ Known(Take(r, x), begun \cup {x.of})
           /\ Held(Take(r, x), kept \cup {x.of})
           /\ x.kind # "body" \/ x.of \notin begun => Once(Take(r, x))
           /\ x.of \in torn \/ x.kind = "body" => LinesTorn(Take(r, x), torn)
           /\ x.of \in torn => OpenTorn(Take(r, x), torn)
<1>1. PICK t : t = Take(r, x)
  OBVIOUS
<1>2. WellRead(r) /\ WellRead(t) /\ t.open
  BY <1>1, TakePiece DEF ReadInv
<1>3. PICK m, k \in Nat : Placed(r, t, x, m, k)
  BY <1>1, <1>2, TakePiece
<1>4. m \in DOMAIN t.lines /\ k \in DOMAIN t.lines[m] /\ t.lines[m][k] = x
  BY <1>3 DEF Placed, At
<1>5. ASSUME NEW i \in DOMAIN t.lines, NEW j \in DOMAIN t.lines[i]
      PROVE  \/ i = m /\ j = k
             \/ /\ i \in DOMAIN r.lines /\ j \in DOMAIN r.lines[i]
                /\ t.lines[i][j] = r.lines[i][j]
  BY <1>2, <1>3 DEF Placed, At, WellRead
<1>6. ASSUME NEW i \in DOMAIN r.lines, NEW j \in DOMAIN r.lines[i]
      PROVE  i \in DOMAIN t.lines /\ j \in DOMAIN t.lines[i] /\ t.lines[i][j] = r.lines[i][j]
  BY <1>2, <1>3 DEF Placed, WellRead
<1>7. Known(t, begun \cup {x.of})
  BY <1>4, <1>5 DEF ReadInv, Known
<1>8. Held(t, kept \cup {x.of})
  BY <1>4, <1>6 DEF ReadInv, Held
<1>9. ASSUME x.kind # "body" \/ x.of \notin begun PROVE Once(t)
  <2> SUFFICES ASSUME NEW i \in DOMAIN t.lines, NEW j \in DOMAIN t.lines,
                      NEW p \in DOMAIN t.lines[i], NEW q \in DOMAIN t.lines[j],
                      t.lines[i][p].kind = "body", t.lines[i][p] = t.lines[j][q]
               PROVE  i = j
    BY DEF Once
  <2>1. Known(r, begun) /\ Once(r)
    BY DEF ReadInv
  <2>2. CASE i = m /\ p = k
    <3>1. x.kind = "body" /\ x.of \notin begun /\ t.lines[j][q].of = x.of
      BY <1>4, <1>9, <2>2
    <3> QED BY <1>5, <2>1, <2>2, <3>1 DEF Known
  <2>3. CASE j = m /\ q = k
    <3>1. x.kind = "body" /\ x.of \notin begun /\ t.lines[i][p].of = x.of
      BY <1>4, <1>9, <2>3
    <3> QED BY <1>5, <2>1, <2>3, <3>1 DEF Known
  <2>4. CASE ~(i = m /\ p = k) /\ ~(j = m /\ q = k)
    BY <1>5, <2>1, <2>4 DEF Once
  <2> QED BY <2>2, <2>3, <2>4
<1>10. ASSUME x.of \in torn \/ x.kind = "body" PROVE LinesTorn(t, torn)
  <2> SUFFICES ASSUME NEW i \in DOMAIN t.lines PROVE Parses(t.lines[i]) \/ Torn(t.lines[i], torn)
    BY DEF LinesTorn
  <2>1. CASE i # m
    BY <1>3, <2>1 DEF ReadInv, LinesTorn, Placed
  <2>2. CASE i = m /\ x.of \in torn
    BY <1>4, <2>2 DEF Torn
  <2>3. CASE i = m /\ x.kind = "body" /\ r.open
    <3>1. Torn(r.lines[m], torn) /\ m \in DOMAIN r.lines
      BY <1>3, <2>3 DEF ReadInv, OpenTorn, Placed
    <3> QED BY <1>6, <2>3, <3>1 DEF Torn
  <2>4. CASE i = m /\ x.kind = "body" /\ ~r.open
    <3>1. t.lines[i] = <<x>>
      BY <1>3, <2>4 DEF Placed
    <3> QED BY <2>4, <3>1 DEF Parses
  <2> QED BY <1>10, <2>1, <2>2, <2>3, <2>4
<1>11. ASSUME x.of \in torn PROVE OpenTorn(t, torn)
  BY <1>3, <1>4, <1>11 DEF OpenTorn, Torn, Placed
<1> QED BY <1>1, <1>2, <1>7, <1>8, <1>9, <1>10, <1>11

(* What a reader of the store sees, and how a piece changes it.            *)
CanRead(r) == \A i \in DOMAIN r.lines : Parses(r.lines[i])
EventsOf(r) == [i \in DOMAIN r.lines |-> r.lines[i][1].of]

Follows(r, t, w) ==
    CanRead(t) => CanRead(r) /\ (EventsOf(t) = EventsOf(r) \/ EventsOf(t) = Append(EventsOf(r), w))

LEMMA BreakFollows ==
    ASSUME NEW r, WellRead(r)
    PROVE  /\ CanRead(Take(r, Newline)) <=> CanRead(r)
           /\ EventsOf(Take(r, Newline)) = EventsOf(r)
BY TakeBreak DEF CanRead, EventsOf

LEMMA PieceFollows ==
    ASSUME NEW r, WellRead(r), NEW x \in Pieces, x # Newline, CanRead(Take(r, x))
    PROVE  /\ CanRead(r) /\ x.kind = "body"
           /\ EventsOf(Take(r, x)) = Append(EventsOf(r), x.of)
<1>1. PICK t : t = Take(r, x)
  OBVIOUS
<1>2. PICK m, k \in Nat : Placed(r, t, x, m, k)
  BY <1>1, TakePiece
<1>3. WellRead(t) /\ CanRead(t)
  BY <1>1, TakePiece
<1>4. m \in DOMAIN t.lines
  BY <1>2 DEF Placed, At
<1>5. Len(t.lines[m]) = 1 /\ t.lines[m][1].kind = "body"
  BY <1>3, <1>4 DEF CanRead, Parses
<1>6. ~r.open
  BY <1>2, <1>5 DEF Placed
<1>7. PICK n \in Nat : n = Len(r.lines) /\ DOMAIN r.lines = 1..n
  <2>1. r.lines \in Seq(Seq(Pieces))
    BY DEF WellRead
  <2> QED BY <2>1
<1>8. /\ m = n + 1 /\ t.lines[m] = <<x>> /\ DOMAIN t.lines = 1..(n + 1)
      /\ \A i \in 1..n : t.lines[i] = r.lines[i]
  BY <1>2, <1>6, <1>7 DEF Placed
<1>9. CanRead(r)
  BY <1>3, <1>7, <1>8 DEF CanRead
<1>10. EventsOf(t) = Append(EventsOf(r), x.of)
  <2>1. PICK f : f = EventsOf(r)
    OBVIOUS
  <2>2. f = [i \in 1..n |-> r.lines[i][1].of]
    BY <1>7, <2>1 DEF EventsOf
  <2> DEFINE V == {f[i] : i \in 1..n} \cup {x.of}
  <2>3. f \in Seq(V) /\ Len(f) = n
    BY <2>2
  <2>4. x.of \in V
    OBVIOUS
  <2> HIDE DEF V
  <2>5. PICK g : g = Append(f, x.of)
    OBVIOUS
  <2>6. /\ g \in Seq(V) /\ Len(g) = n + 1 /\ DOMAIN g = 1..(n + 1)
        /\ g[n + 1] = x.of /\ \A i \in 1..n : g[i] = f[i]
    BY <2>3, <2>4, <2>5, AppendProperties
  <2>7. g = [i \in 1..(n + 1) |-> g[i]]
    BY <2>6
  <2>8. \A i \in 1..(n + 1) : g[i] = t.lines[i][1].of
    BY <1>8, <2>2, <2>6
  <2>9. g = [i \in 1..(n + 1) |-> t.lines[i][1].of]
    BY <2>7, <2>8
  <2> QED BY <1>8, <2>1, <2>5, <2>9 DEF EventsOf
<1> QED BY <1>1, <1>5, <1>8, <1>9, <1>10

-----------------------------------------------------------------------------
(* The file.                                                               *)

LEMMA AppendedOne ==
    ASSUME NEW S, NEW f \in Seq(S), NEW x \in S
    PROVE  f \o <<x>> = Append(f, x) /\ f \o <<x>> \in Seq(S)
<1>1. PICK g : g = f \o <<x>>
  OBVIOUS
<1>2. PICK h : h = Append(f, x)
  OBVIOUS
<1>3. PICK n \in Nat : n = Len(f) /\ DOMAIN f = 1..n
  OBVIOUS
<1>4. /\ h \in Seq(S) /\ Len(h) = n + 1 /\ h[n + 1] = x /\ \A i \in 1..n : h[i] = f[i]
  BY <1>2, <1>3, AppendProperties
<1>5. /\ g \in Seq(S) /\ Len(g) = n + 1 /\ g[n + 1] = x /\ \A i \in 1..n : g[i] = f[i]
  <2>1. <<x>> \in Seq(S) /\ Len(<<x>>) = 1 /\ <<x>>[1] = x
    OBVIOUS
  <2>2. /\ g \in Seq(S) /\ Len(g) = Len(f) + Len(<<x>>)
        /\ \A i \in 1..Len(g) : g[i] = IF i <= Len(f) THEN f[i] ELSE <<x>>[i - Len(f)]
    BY <1>1, <2>1, ConcatProperties
  <2>3. Len(g) = n + 1 /\ n + 1 \in 1..Len(g) /\ \A i \in 1..n : i \in 1..Len(g)
    BY <1>3, <2>1, <2>2
  <2> QED BY <1>3, <2>1, <2>2, <2>3
<1>6. Len(g) = Len(h) /\ \A i \in 1..Len(g) : g[i] = h[i]
  BY <1>4, <1>5
<1>7. g = h
  BY <1>4, <1>5, <1>6, SeqEqual
<1> QED BY <1>1, <1>2, <1>5, <1>7

LEMMA AppendedThree ==
    ASSUME NEW S, NEW f \in Seq(S), NEW x \in S, NEW y \in S, NEW z \in S
    PROVE  f \o <<x, y, z>> = Append(Append(Append(f, x), y), z)
<1>1. <<x, y, z>> = (<<x>> \o <<y>>) \o <<z>>
  <2>1. PICK g : g = <<x, y, z>>
    OBVIOUS
  <2>2. g \in Seq(S) /\ Len(g) = 3 /\ g[1] = x /\ g[2] = y /\ g[3] = z
    BY <2>1
  <2>3. PICK a : a = <<x>>
    OBVIOUS
  <2>4. a \in Seq(S) /\ Len(a) = 1 /\ a[1] = x
    BY <2>3
  <2>5. PICK b : b = Append(a, y)
    OBVIOUS
  <2>6. b \in Seq(S) /\ Len(b) = 2 /\ b[1] = x /\ b[2] = y
    <3>1. PICK n \in Nat : n = Len(a)
      BY <2>4
    <3>2. a \in Seq(S)
      BY <2>4
    <3>3. b \in Seq(S) /\ Len(b) = n + 1 /\ b[n + 1] = y /\ \A i \in 1..n : b[i] = a[i]
      BY ONLY y \in S, <2>5, <3>1, <3>2, AppendProperties
    <3> QED BY <2>4, <3>1, <3>3
  <2>7. PICK c : c = Append(b, z)
    OBVIOUS
  <2>8. c \in Seq(S) /\ Len(c) = 3 /\ c[1] = x /\ c[2] = y /\ c[3] = z
    <3>1. PICK n \in Nat : n = Len(b)
      BY <2>6
    <3>2. b \in Seq(S)
      BY <2>6
    <3>3. c \in Seq(S) /\ Len(c) = n + 1 /\ c[n + 1] = z /\ \A i \in 1..n : c[i] = b[i]
      BY ONLY z \in S, <2>7, <3>1, <3>2, AppendProperties
    <3> QED BY <2>6, <3>1, <3>3
  <2>9. \A i \in 1..Len(g) : g[i] = c[i]
    BY <2>2, <2>8
  <2>10. g = c
    BY <2>2, <2>8, <2>9, SeqEqual
  <2>11. a \o <<y>> = b /\ b \o <<z>> = c
    BY <2>4, <2>5, <2>6, <2>7, AppendedOne
  <2> QED BY <2>1, <2>3, <2>10, <2>11
<1>2. <<x>> \in Seq(S) /\ <<y>> \in Seq(S) /\ <<z>> \in Seq(S) /\ <<x>> \o <<y>> \in Seq(S)
  OBVIOUS
<1>3. f \o ((<<x>> \o <<y>>) \o <<z>>) = (f \o (<<x>> \o <<y>>)) \o <<z>>
  BY <1>2, ConcatAssociative
<1>4. f \o (<<x>> \o <<y>>) = (f \o <<x>>) \o <<y>>
  BY <1>2, ConcatAssociative
<1>5. f \o <<x>> = Append(f, x) /\ Append(f, x) \in Seq(S)
  BY AppendedOne
<1>6. Append(f, x) \o <<y>> = Append(Append(f, x), y) /\ Append(Append(f, x), y) \in Seq(S)
  BY <1>5, AppendedOne
<1>7. Append(Append(f, x), y) \o <<z>> = Append(Append(Append(f, x), y), z)
  BY <1>6, AppendedOne
<1> QED BY <1>1, <1>3, <1>4, <1>5, <1>6, <1>7

(* What text of w a file f may get at once, to become g.                   *)
Wrote(f, g, w) ==
    \/ g = f
    \/ g = Append(f, Part(w))
    \/ g = Append(f, Body(w))
    \/ g = Append(Append(Append(f, Part(w)), Newline), Part(w))

LEMMA TextIsWritten ==
    ASSUME NEW f \in Seq(Pieces), NEW w \in Writes, NEW e
    PROVE  /\ f \o Text(w, e) =
                IF e.separator THEN Append(Append(Append(f, Part(w)), Newline), Part(w))
                               ELSE Append(f, Body(w))
           /\ f \o <<Part(w)>> = Append(f, Part(w)) /\ f \o <<>> = f
<1>1. f \o <<Part(w), Newline, Part(w)>> = Append(Append(Append(f, Part(w)), Newline), Part(w))
  BY PieceTypes, AppendedThree
<1>2. f \o <<Body(w)>> = Append(f, Body(w)) /\ f \o <<Part(w)>> = Append(f, Part(w))
  BY PieceTypes, AppendedOne
<1>3. f \o <<>> = f
  BY ConcatEmptySeq
<1> QED BY <1>1, <1>2, <1>3 DEF Text

LEMMA LineWritten ==
    ASSUME NEW f \in Seq(Pieces), NEW w \in Writes, NEW e
    PROVE  f \o (Text(w, e) \o <<Newline>>) = Append(f \o Text(w, e), Newline)
<1>1. /\ Part(w) \in Pieces /\ Body(w) \in Pieces /\ Newline \in Pieces
  BY PieceTypes
<1>2. Text(w, e) \in Seq(Pieces)
  BY <1>1 DEF Text
<1>3. PICK t \in Seq(Pieces) : t = Text(w, e)
  BY <1>2
<1>4. PICK g \in Seq(Pieces) : g = f \o t
  BY ConcatProperties
<1>5. f \o (t \o <<Newline>>) = g \o <<Newline>>
  BY <1>1, <1>4, ConcatAssociative
<1>6. g \o <<Newline>> = Append(g, Newline)
  BY <1>1, AppendedOne
<1> QED BY <1>3, <1>4, <1>5, <1>6

LEMMA PartWritten ==
    ASSUME NEW f \in Seq(Pieces), NEW w \in Writes, NEW begun, NEW kept, NEW torn,
           ReadInv(Read(f), begun, kept, torn), w \in torn
    PROVE  /\ Append(f, Part(w)) \in Seq(Pieces)
           /\ ReadInv(Read(Append(f, Part(w))), begun \cup {w}, kept \cup {w}, torn)
           /\ ~CanRead(Read(Append(f, Part(w))))
<1>1. PICK x : x = Part(w)
  OBVIOUS
<1>2. x \in Pieces /\ x # Newline /\ x.of = w /\ x.kind = "part"
  BY <1>1, PieceTypes
<1>3. Read(Append(f, x)) = Take(Read(f), x)
  BY <1>2, ReadAppend
<1>4. Append(f, x) \in Seq(Pieces)
  BY <1>2, AppendProperties
<1>5. ReadInv(Take(Read(f), x), begun \cup {w}, kept \cup {w}, torn)
  BY <1>2, PieceKeeps DEF ReadInv
<1>6. ~CanRead(Take(Read(f), x))
  BY <1>2, PieceFollows DEF ReadInv
<1> QED BY <1>1, <1>3, <1>4, <1>5, <1>6

LEMMA BreakWritten ==
    ASSUME NEW f \in Seq(Pieces), NEW begun, NEW kept, NEW torn,
           ReadInv(Read(f), begun, kept, torn)
    PROVE  /\ Append(f, Newline) \in Seq(Pieces)
           /\ ReadInv(Read(Append(f, Newline)), begun, kept, torn)
           /\ CanRead(Read(Append(f, Newline))) <=> CanRead(Read(f))
           /\ EventsOf(Read(Append(f, Newline))) = EventsOf(Read(f))
<1>1. Newline \in Pieces
  BY DEF Pieces, Newline
<1>2. Read(Append(f, Newline)) = Take(Read(f), Newline) /\ Append(f, Newline) \in Seq(Pieces)
  BY <1>1, ReadAppend, AppendProperties
<1> QED BY <1>2, BreakKeeps, BreakFollows DEF ReadInv

(* The text of a write that counts among the torn may stay without its end.*)
LEMMA TextWritten ==
    ASSUME NEW f \in Seq(Pieces), NEW g, NEW w \in Writes, NEW begun, NEW kept, NEW torn,
           ReadInv(Read(f), begun, kept, torn), w \notin begun, w \in torn, Wrote(f, g, w)
    PROVE  /\ g \in Seq(Pieces)
           /\ ReadInv(Read(g), begun \cup {w}, IF g = f THEN kept ELSE kept \cup {w}, torn)
           /\ Follows(Read(f), Read(g), w)
<1>1. CASE g = f
  <2>1. ReadInv(Read(f), begun \cup {w}, kept, torn)
    BY ReadInvGrows
  <2> QED BY <1>1, <2>1 DEF Follows
<1>2. CASE g = Append(f, Part(w))
  <2>1. /\ g \in Seq(Pieces) /\ ReadInv(Read(g), begun \cup {w}, kept \cup {w}, torn)
        /\ ~CanRead(Read(g))
    BY <1>2, PartWritten
  <2>2. ReadInv(Read(g), begun \cup {w}, kept, torn)
    BY <2>1, ReadInvGrows
  <2> QED BY <2>1, <2>2 DEF Follows
<1>3. CASE g = Append(f, Body(w))
  <2>1. PICK x : x = Body(w)
    OBVIOUS
  <2>2. x \in Pieces /\ x # Newline /\ x.of = w /\ x.kind = "body"
    BY <2>1, PieceTypes
  <2>3. Read(g) = Take(Read(f), x) /\ g \in Seq(Pieces)
    BY <1>3, <2>1, <2>2, ReadAppend, AppendProperties
  <2>4. ReadInv(Take(Read(f), x), begun \cup {w}, kept \cup {w}, torn)
    BY <2>2, PieceKeeps DEF ReadInv
  <2>5. ReadInv(Read(g), begun \cup {w}, kept, torn)
    BY <2>3, <2>4, ReadInvGrows
  <2>6. Follows(Read(f), Read(g), w)
    BY <2>2, <2>3, PieceFollows DEF ReadInv, Follows
  <2> QED BY <2>3, <2>4, <2>5, <2>6
<1>4. CASE g = Append(Append(Append(f, Part(w)), Newline), Part(w))
  <2>1. PICK h : h = Append(f, Part(w))
    OBVIOUS
  <2>2. h \in Seq(Pieces) /\ ReadInv(Read(h), begun \cup {w}, kept \cup {w}, torn)
    BY <2>1, PartWritten
  <2>3. PICK i : i = Append(h, Newline)
    OBVIOUS
  <2>4. i \in Seq(Pieces) /\ ReadInv(Read(i), begun \cup {w}, kept \cup {w}, torn)
    BY <2>2, <2>3, BreakWritten
  <2>5. g = Append(i, Part(w))
    BY <1>4, <2>1, <2>3
  <2>6. /\ g \in Seq(Pieces)
        /\ ReadInv(Read(g), (begun \cup {w}) \cup {w}, (kept \cup {w}) \cup {w}, torn)
        /\ ~CanRead(Read(g))
    BY <2>4, <2>5, PartWritten
  <2>7. ReadInv(Read(g), begun \cup {w}, kept \cup {w}, torn)
    BY <2>6, ReadInvGrows
  <2>8. ReadInv(Read(g), begun \cup {w}, kept, torn)
    BY <2>7, ReadInvGrows
  <2> QED BY <2>6, <2>7, <2>8 DEF Follows
<1> QED BY <1>1, <1>2, <1>3, <1>4 DEF Wrote

(* A short event without separators is a line of its own, or the end of a  *)
(* line that is torn already.                                              *)
LEMMA EventWritten ==
    ASSUME NEW f \in Seq(Pieces), NEW g, NEW w \in Writes, NEW begun, NEW kept, NEW torn,
           ReadInv(Read(f), begun, kept, torn), w \notin begun,
           g = Append(Append(f, Body(w)), Newline)
    PROVE  /\ g \in Seq(Pieces)
           /\ ReadInv(Read(g), begun \cup {w}, kept \cup {w}, torn)
           /\ Follows(Read(f), Read(g), w)
<1>1. PICK x : x = Body(w)
  OBVIOUS
<1>2. x \in Pieces /\ x # Newline /\ x.of = w /\ x.kind = "body" /\ Newline \in Pieces
  BY <1>1, PieceTypes
<1>3. PICK h : h = Append(f, x)
  OBVIOUS
<1>4. /\ h \in Seq(Pieces) /\ g = Append(h, Newline) /\ g \in Seq(Pieces)
      /\ Read(h) = Take(Read(f), x) /\ Read(g) = Take(Read(h), Newline)
  BY <1>1, <1>2, <1>3, ReadAppend, AppendProperties
<1>5. /\ WellRead(Read(h)) /\ Known(Read(h), begun \cup {w}) /\ Once(Read(h))
      /\ Held(Read(h), kept \cup {w}) /\ LinesTorn(Read(h), torn)
  <2>1. PICK t : t = Take(Read(f), x)
    OBVIOUS
  <2>2. /\ WellRead(t) /\ Known(t, begun \cup {w}) /\ Held(t, kept \cup {w})
        /\ Once(t) /\ LinesTorn(t, torn)
    BY <1>2, <2>1, PieceKeeps
  <2> QED BY <1>4, <2>1, <2>2
<1>6. ReadInv(Read(g), begun \cup {w}, kept \cup {w}, torn)
  BY <1>4, <1>5, BreakKeeps
<1>7. Follows(Read(f), Read(g), w)
  BY <1>2, <1>4, <1>5, PieceFollows, BreakFollows DEF ReadInv, Follows
<1> QED BY <1>4, <1>6, <1>7

-----------------------------------------------------------------------------
(* The writers.                                                            *)

Begun == {w \in Writes : pc[w] # "new"}

Kept == {w \in Writes : pc[w] \in {"half", "written"}}

TornWrites ==
    {w \in Begun : pc[w] = "failed" \/ event[w].long \/ event[w].separator}

WritersInv ==
    /\ pc \in [Writes -> {"new", "half", "written", "failed", "lost"}]
    /\ busy \in [Processes -> Writes \cup {None}]
    /\ DOMAIN event = Writes /\ \A w \in Begun : event[w] \in Events
    /\ \A p \in Processes : busy[p] # None => pc[busy[p]] = "half"
    /\ \A p, q \in Processes : busy[p] # None /\ busy[p] = busy[q] => p = q

AuditInv ==
    /\ WritersInv
    /\ file \in Seq(Pieces)
    /\ ReadInv(Read(file), Begun, Kept, TornWrites)

(* How a step changes what is read.                                        *)
StoreGrows ==
    CanRead(Read(file')) =>
        /\ CanRead(Read(file))
        /\ \/ EventsOf(Read(file')) = EventsOf(Read(file))
           \/ \E w \in Writes \ Begun :
                 EventsOf(Read(file')) = Append(EventsOf(Read(file)), w)

LEMMA InitAuditInv == Init => AuditInv
<1> SUFFICES ASSUME Init PROVE AuditInv
  OBVIOUS
<1>1. Begun = {} /\ Kept = {}
  BY DEF Init, Begun, Kept
<1>2. WritersInv
  BY <1>1 DEF Init, WritersInv
<1>3. file = <<>> /\ <<>> \in Seq(Pieces)
  BY DEF Init
<1>4. PICK r : r = NothingRead
  OBVIOUS
<1>5. WellRead(r) /\ DOMAIN r.lines = {} /\ r.open = FALSE
  BY <1>4, NothingIsWellRead DEF NothingRead
<1>6. ReadInv(r, Begun, Kept, TornWrites)
  BY <1>1, <1>5 DEF ReadInv, Known, Once, Held, LinesTorn, OpenTorn
<1> QED BY <1>2, <1>3, <1>4, <1>6, ReadNothing DEF AuditInv

(* A write begins and is done, held up half way, or given up.              *)
LEMMA WriterBegins ==
    ASSUME WritersInv, NEW p \in Processes, NEW w \in Writes, NEW e \in Events,
           pc[w] = "new", event' = [event EXCEPT ![w] = e], busy[p] = None,
           NEW place \in {"half", "written", "failed"}, Done(w, place),
           busy' = IF place = "half" THEN [busy EXCEPT ![p] = w] ELSE busy
    PROVE  /\ WritersInv' /\ w \notin Begun /\ Begun' = Begun \cup {w}
           /\ Kept' = IF place = "failed" THEN Kept ELSE Kept \cup {w}
           /\ TornWrites \subseteq TornWrites'
           /\ w \in TornWrites' <=> place = "failed" \/ e.long \/ e.separator
<1>1. /\ pc' \in [Writes -> {"new", "half", "written", "failed", "lost"}]
      /\ pc'[w] = place /\ \A v \in Writes \ {w} : pc'[v] = pc[v]
  BY DEF WritersInv, Done
<1>2. DOMAIN event' = Writes /\ event'[w] = e /\ \A v \in Writes \ {w} : event'[v] = event[v]
  BY DEF WritersInv
<1>3. w \notin Begun /\ Begun' = Begun \cup {w}
  BY <1>1 DEF Begun
<1>4. Kept' = IF place = "failed" THEN Kept ELSE Kept \cup {w}
  BY <1>1 DEF Kept
<1>5. TornWrites \subseteq TornWrites'
  <2> SUFFICES ASSUME NEW v \in TornWrites PROVE v \in TornWrites'
    OBVIOUS
  <2>1. v \in Begun /\ (pc[v] = "failed" \/ event[v].long \/ event[v].separator)
    BY DEF TornWrites
  <2>2. v \in Begun' /\ pc'[v] = pc[v] /\ event'[v] = event[v]
    BY <1>1, <1>2, <1>3, <2>1 DEF Begun
  <2> QED BY <2>1, <2>2 DEF TornWrites
<1>6. w \in TornWrites' <=> place = "failed" \/ e.long \/ e.separator
  BY <1>1, <1>2, <1>3 DEF TornWrites
<1>7. \A v \in Begun' : event'[v] \in Events
  BY <1>2, <1>3 DEF WritersInv, Begun
<1>8. busy' \in [Processes -> Writes \cup {None}]
  BY DEF WritersInv
<1>9. \A q \in Processes : busy'[q] # None => pc'[busy'[q]] = "half"
  BY <1>1, WritesAssumption DEF WritersInv
<1>10. \A q, s \in Processes : busy'[q] # None /\ busy'[q] = busy'[s] => q = s
  <2>1. \A q \in Processes : busy[q] # w
    BY WritesAssumption DEF WritersInv
  <2> QED BY <2>1 DEF WritersInv
<1> QED BY <1>1, <1>2, <1>3, <1>4, <1>5, <1>6, <1>7, <1>8, <1>9, <1>10 DEF WritersInv

LEMMA WriterEnds ==
    ASSUME WritersInv, NEW p \in Processes, busy[p] # None, event' = event,
           NEW place \in {"written", "failed", "lost"}, Done(busy[p], place),
           busy' = [busy EXCEPT ![p] = None]
    PROVE  /\ WritersInv' /\ Begun' = Begun /\ Kept' \subseteq Kept
           /\ TornWrites \subseteq TornWrites'
<1>1. PICK w \in Writes : w = busy[p] /\ pc[w] = "half"
  BY DEF WritersInv
<1>2. /\ pc' \in [Writes -> {"new", "half", "written", "failed", "lost"}]
      /\ pc'[w] = place /\ \A v \in Writes \ {w} : pc'[v] = pc[v]
  BY <1>1 DEF WritersInv, Done
<1>3. Begun' = Begun
  BY <1>1, <1>2 DEF Begun
<1>4. Kept' \subseteq Kept
  BY <1>1, <1>2 DEF Kept
<1>5. TornWrites \subseteq TornWrites'
  <2> SUFFICES ASSUME NEW v \in TornWrites PROVE v \in TornWrites'
    OBVIOUS
  <2>1. v \in Begun /\ (pc[v] = "failed" \/ event[v].long \/ event[v].separator)
    BY DEF TornWrites
  <2>2. v # w => pc'[v] = pc[v]
    BY <1>2, <2>1 DEF Begun
  <2>3. v \in Begun' /\ event'[v] = event[v] /\ (pc[v] = "failed" => pc'[v] = "failed")
    BY <1>1, <1>3, <2>1, <2>2
  <2> QED BY <2>1, <2>3 DEF TornWrites
<1>6. busy' \in [Processes -> Writes \cup {None}] /\ busy'[p] = None
      /\ \A q \in Processes \ {p} : busy'[q] = busy[q]
  BY DEF WritersInv
<1>7. \A q \in Processes : busy'[q] # None => pc'[busy'[q]] = "half"
  BY <1>1, <1>2, <1>6 DEF WritersInv
<1>8. \A q, s \in Processes : busy'[q] # None /\ busy'[q] = busy'[s] => q = s
  BY <1>6 DEF WritersInv
<1> QED BY <1>2, <1>3, <1>4, <1>5, <1>6, <1>7, <1>8 DEF WritersInv

LEMMA NextAuditInv ==
    ASSUME AuditInv, [Next]_vars
    PROVE  AuditInv' /\ StoreGrows
<1>1. CASE UNCHANGED vars
  BY <1>1 DEF vars, AuditInv, WritersInv, Begun, Kept, TornWrites, StoreGrows
<1>2. ASSUME NEW p \in Processes, Write(p) PROVE AuditInv' /\ StoreGrows
  <2>1. PICK w \in Writes, e \in Events :
            /\ pc[w] = "new" /\ event' = [event EXCEPT ![w] = e] /\ busy[p] = None
            /\ WriteShort(p, w, e) \/ WriteLong(p, w, e) \/ WriteFails(p, w, e)
    BY <1>2 DEF Write
  <2>2. WritersInv /\ file \in Seq(Pieces) /\ ReadInv(Read(file), Begun, Kept, TornWrites)
    BY DEF AuditInv
  <2>3. ASSUME NEW g, Wrote(file, g, w), g = file', WritersInv',
               w \notin Begun, Begun' = Begun \cup {w}, TornWrites \subseteq TornWrites',
               Kept' \subseteq (IF g = file THEN Kept ELSE Kept \cup {w}), w \in TornWrites'
        PROVE  AuditInv' /\ StoreGrows
    <3>1. PICK torn : torn = TornWrites'
      OBVIOUS
    <3>2. ReadInv(Read(file), Begun, Kept, torn)
      BY <2>2, <2>3, <3>1, ReadInvGrows
    <3>3. /\ g \in Seq(Pieces) /\ Follows(Read(file), Read(g), w)
          /\ ReadInv(Read(g), Begun \cup {w}, IF g = file THEN Kept ELSE Kept \cup {w}, torn)
      BY <2>2, <2>3, <3>1, <3>2, TextWritten
    <3>4. ReadInv(Read(g), Begun', Kept', torn)
      BY <2>3, <3>3, ReadInvGrows
    <3> QED BY <2>3, <3>1, <3>3, <3>4 DEF AuditInv, StoreGrows, Follows
  <2>4. CASE WriteShort(p, w, e)
    <3>1. /\ WritersInv' /\ w \notin Begun /\ Begun' = Begun \cup {w} /\ Kept' = Kept \cup {w}
          /\ TornWrites \subseteq TornWrites'
          /\ w \in TornWrites' <=> e.long \/ e.separator
      BY <2>1, <2>2, <2>4, WriterBegins DEF WriteShort
    <3>2. PICK g : g = file \o Text(w, e)
      OBVIOUS
    <3>3. ~e.long /\ file' = g \o <<Newline>>
      BY <2>4, <3>2 DEF WriteShort
    <3>4. PICK torn : torn = TornWrites'
      OBVIOUS
    <3>5. ReadInv(Read(file), Begun, Kept, torn)
      BY <2>2, <3>1, <3>4, ReadInvGrows
    <3>6. Newline \in Pieces
      BY DEF Pieces, Newline
    <3>7. CASE e.separator
      <4>1. Wrote(file, g, w)
        BY <2>2, <3>2, <3>7, TextIsWritten DEF Wrote
      <4>2. w \in torn
        BY <3>1, <3>4, <3>7
      <4>3. /\ g \in Seq(Pieces) /\ Follows(Read(file), Read(g), w)
            /\ ReadInv(Read(g), Begun \cup {w}, IF g = file THEN Kept ELSE Kept \cup {w}, torn)
        BY <2>2, <3>1, <3>5, <4>1, <4>2, TextWritten
      <4>4. g # file
        <5>1. g = Append(Append(Append(file, Part(w)), Newline), Part(w))
          BY <2>2, <3>2, <3>7, TextIsWritten
        <5>2. Part(w) \in Pieces
          BY PieceTypes
        <5>3. PICK n \in Nat : n = Len(file)
          BY <2>2
        <5>4. Len(g) = n + 3
          BY <2>2, <3>6, <5>1, <5>2, <5>3, AppendProperties
        <5> QED BY <5>3, <5>4
      <4>5. file' = Append(g, Newline)
        BY <3>3, <3>6, <4>3, AppendedOne
      <4>6. /\ file' \in Seq(Pieces) /\ ReadInv(Read(file'), Begun', Kept', torn)
            /\ CanRead(Read(file')) <=> CanRead(Read(g))
            /\ EventsOf(Read(file')) = EventsOf(Read(g))
        BY <3>1, <4>3, <4>4, <4>5, BreakWritten
      <4> QED BY <3>1, <3>4, <4>3, <4>6 DEF AuditInv, StoreGrows, Follows
    <3>8. CASE ~e.separator
      <4>1. g = Append(file, Body(w))
        BY <2>2, <3>2, <3>8, TextIsWritten
      <4>2. g \in Seq(Pieces)
        BY <2>2, <4>1, PieceTypes, AppendProperties
      <4>3. file' = Append(Append(file, Body(w)), Newline)
        BY <3>3, <3>6, <4>1, <4>2, AppendedOne
      <4>4. PICK h : h = file'
        OBVIOUS
      <4>5. /\ h \in Seq(Pieces) /\ ReadInv(Read(h), Begun \cup {w}, Kept \cup {w}, torn)
            /\ Follows(Read(file), Read(h), w)
        BY <2>2, <3>1, <3>5, <4>3, <4>4, EventWritten
      <4> QED BY <3>1, <3>4, <4>4, <4>5 DEF AuditInv, StoreGrows, Follows
    <3>9. e.separator \in BOOLEAN
      BY EventsAssumption
    <3> QED BY <3>7, <3>8
  <2>5. CASE WriteLong(p, w, e)
    <3>1. /\ WritersInv' /\ w \notin Begun /\ Begun' = Begun \cup {w} /\ Kept' = Kept \cup {w}
          /\ TornWrites \subseteq TornWrites' /\ w \in TornWrites'
      BY <2>1, <2>2, <2>5, WriterBegins DEF WriteLong
    <3>2. PICK g : g = file' /\ g = file \o Text(w, e)
      BY <2>5 DEF WriteLong
    <3>3. Wrote(file, g, w)
      BY <2>2, <3>2, TextIsWritten DEF Wrote
    <3>4. g # file
      <4>1. PICK n \in Nat : n = Len(file)
        BY <2>2
      <4>2. Part(w) \in Pieces /\ Body(w) \in Pieces /\ Newline \in Pieces
        BY PieceTypes
      <4>3. g = Append(file, Body(w))
            \/ g = Append(Append(Append(file, Part(w)), Newline), Part(w))
        BY <2>2, <3>2, TextIsWritten
      <4>4. Len(g) = n + 1 \/ Len(g) = n + 3
        BY <2>2, <4>1, <4>2, <4>3, AppendProperties
      <4> QED BY <4>1, <4>4
    <3> QED BY <2>3, <3>1, <3>2, <3>3, <3>4
  <2>6. CASE WriteFails(p, w, e)
    <3>1. /\ WritersInv' /\ w \notin Begun /\ Begun' = Begun \cup {w} /\ Kept' = Kept
          /\ TornWrites \subseteq TornWrites' /\ w \in TornWrites'
      BY <2>1, <2>2, <2>6, WriterBegins DEF WriteFails
    <3>2. ASSUME NEW written \in {<<>>, <<Part(w)>>, Text(w, e)}, file' = file \o written
          PROVE  AuditInv' /\ StoreGrows
      <4>1. PICK g : g = file'
        OBVIOUS
      <4>2. Wrote(file, g, w)
        BY <2>2, <3>2, <4>1, TextIsWritten DEF Wrote
      <4> QED BY <2>3, <3>1, <4>1, <4>2
    <3>3. CASE file' = file \o (Text(w, e) \o <<Newline>>)
      <4>1. PICK g : g = file \o Text(w, e)
        OBVIOUS
      <4>2. PICK torn : torn = TornWrites'
        OBVIOUS
      <4>3. ReadInv(Read(file), Begun, Kept, torn)
        BY <2>2, <3>1, <4>2, ReadInvGrows
      <4>4. Wrote(file, g, w)
        BY <2>2, <4>1, TextIsWritten DEF Wrote
      <4>5. /\ g \in Seq(Pieces) /\ Follows(Read(file), Read(g), w)
            /\ ReadInv(Read(g), Begun \cup {w}, IF g = file THEN Kept ELSE Kept \cup {w}, torn)
        BY <2>2, <3>1, <4>2, <4>3, <4>4, TextWritten
      <4>6. ReadInv(Read(g), Begun', Kept', torn)
        BY <3>1, <4>5, ReadInvGrows
      <4>7. file' = Append(g, Newline)
        BY <2>2, <3>3, <4>1, <4>5, LineWritten
      <4>8. /\ file' \in Seq(Pieces) /\ ReadInv(Read(file'), Begun', Kept', torn)
            /\ CanRead(Read(file')) <=> CanRead(Read(g))
            /\ EventsOf(Read(file')) = EventsOf(Read(g))
        BY <4>5, <4>6, <4>7, BreakWritten
      <4> QED BY <3>1, <4>2, <4>5, <4>8 DEF AuditInv, StoreGrows, Follows
    <3> QED BY <2>6, <3>2, <3>3 DEF WriteFails
  <2> QED BY <2>1, <2>4, <2>5, <2>6
<1>3. ASSUME NEW p \in Processes, Close(p) PROVE AuditInv' /\ StoreGrows
  <2>1. WritersInv /\ file \in Seq(Pieces) /\ ReadInv(Read(file), Begun, Kept, TornWrites)
    BY DEF AuditInv
  <2>2. /\ WritersInv' /\ Begun' = Begun /\ Kept' \subseteq Kept /\ TornWrites \subseteq TornWrites'
    BY <1>3, <2>1, WriterEnds DEF Close
  <2>3. file' = Append(file, Newline)
    BY <1>3 DEF Close
  <2>4. /\ file' \in Seq(Pieces) /\ ReadInv(Read(file'), Begun, Kept, TornWrites)
        /\ CanRead(Read(file')) <=> CanRead(Read(file))
        /\ EventsOf(Read(file')) = EventsOf(Read(file))
    BY <2>1, <2>3, BreakWritten
  <2>5. PICK g, torn : g = file' /\ torn = TornWrites'
    OBVIOUS
  <2>6. ReadInv(Read(g), Begun', Kept', torn)
    BY <2>2, <2>4, <2>5, ReadInvGrows
  <2> QED BY <2>2, <2>4, <2>5, <2>6 DEF AuditInv, StoreGrows
<1>4. ASSUME NEW p \in Processes, CloseFails(p), file' = Append(file, Newline)
      PROVE  AuditInv' /\ StoreGrows
  <2>1. WritersInv /\ file \in Seq(Pieces) /\ ReadInv(Read(file), Begun, Kept, TornWrites)
    BY DEF AuditInv
  <2>2. /\ WritersInv' /\ Begun' = Begun /\ Kept' \subseteq Kept /\ TornWrites \subseteq TornWrites'
    BY <1>4, <2>1, WriterEnds DEF CloseFails
  <2>3. /\ file' \in Seq(Pieces) /\ ReadInv(Read(file'), Begun, Kept, TornWrites)
        /\ CanRead(Read(file')) <=> CanRead(Read(file))
        /\ EventsOf(Read(file')) = EventsOf(Read(file))
    BY <1>4, <2>1, BreakWritten
  <2>4. PICK g, torn : g = file' /\ torn = TornWrites'
    OBVIOUS
  <2>5. ReadInv(Read(g), Begun', Kept', torn)
    BY <2>2, <2>3, <2>4, ReadInvGrows
  <2> QED BY <2>2, <2>3, <2>4, <2>5 DEF AuditInv, StoreGrows
<1>5. ASSUME NEW p \in Processes, Crash(p) \/ (CloseFails(p) /\ file' = file)
      PROVE  AuditInv' /\ StoreGrows
  <2>1. WritersInv /\ file \in Seq(Pieces) /\ ReadInv(Read(file), Begun, Kept, TornWrites)
    BY DEF AuditInv
  <2>2. /\ WritersInv' /\ Begun' = Begun /\ Kept' \subseteq Kept /\ TornWrites \subseteq TornWrites'
    BY <1>5, <2>1, WriterEnds DEF CloseFails, Crash
  <2>3. file' = file
    BY <1>5 DEF Crash
  <2>4. PICK torn : torn = TornWrites'
    OBVIOUS
  <2>5. ReadInv(Read(file), Begun', Kept', torn)
    BY <2>1, <2>2, <2>4, ReadInvGrows
  <2> QED BY <2>1, <2>2, <2>3, <2>4, <2>5 DEF AuditInv, StoreGrows
<1> QED BY <1>1, <1>2, <1>3, <1>4, <1>5 DEF Next, CloseFails

LEMMA AuditInvAlways == Spec => []AuditInv
BY InitAuditInv, NextAuditInv, PTL DEF Spec

-----------------------------------------------------------------------------
(* What readers are promised.                                              *)

LEMMA ReadersRead ==
    /\ Lines = Read(file).lines
    /\ Readable <=> CanRead(Read(file))
    /\ AuditEvents = EventsOf(Read(file))
<1>1. Lines = Read(file).lines
  BY DEF Lines, Read
<1> QED BY <1>1 DEF Readable, CanRead, AuditEvents, EventsOf

(* A line of a log file that does not parse holds a piece of an event that *)
(* was cut off, is long, or holds a separator: concurrent writers of short *)
(* events never spoil it (JsonlAuditLogger.write).                         *)
THEOREM OnlyTheTornIsLost == Spec => []OnlyTornLinesBreakTheLog
<1>1. AuditInv => OnlyTornLinesBreakTheLog
  <2> SUFFICES ASSUME AuditInv, NEW i \in DOMAIN Lines, ~Parses(Lines[i])
               PROVE  \E k \in DOMAIN Lines[i] :
                         LET w == Lines[i][k].of
                         IN  pc[w] = "failed" \/ event[w].long \/ event[w].separator
    BY DEF OnlyTornLinesBreakTheLog
  <2>1. Torn(Lines[i], TornWrites)
    BY ReadersRead DEF AuditInv, ReadInv, LinesTorn
  <2> QED BY <2>1 DEF Torn, TornWrites
<1> QED BY <1>1, AuditInvAlways, PTL

LEMMA ReadOfWrites ==
    ASSUME AuditInv, Readable
    PROVE  /\ AuditEvents \in Seq(Writes) /\ DOMAIN AuditEvents = DOMAIN Lines
           /\ \A i \in DOMAIN AuditEvents : AuditEvents[i] \in Begun
           /\ \A i, j \in DOMAIN AuditEvents : AuditEvents[i] = AuditEvents[j] => i = j
<1>1. PICK r : r = Read(file)
  OBVIOUS
<1>2. ReadInv(r, Begun, Kept, TornWrites) /\ CanRead(r)
  BY <1>1, ReadersRead DEF AuditInv
<1>3. PICK events : events = EventsOf(r)
  OBVIOUS
<1>4. r.lines \in Seq(Seq(Pieces))
  BY <1>2 DEF ReadInv, WellRead
<1>5. PICK n \in Nat : n = Len(r.lines) /\ DOMAIN r.lines = 1..n
  BY <1>4
<1>6. \A i \in 1..n : /\ r.lines[i] \in Seq(Pieces) /\ Len(r.lines[i]) = 1
                      /\ r.lines[i][1].kind = "body"
  <2>1. \A i \in 1..n : r.lines[i] \in Seq(Pieces)
    BY <1>4, <1>5
  <2>2. \A i \in 1..n : Len(r.lines[i]) = 1 /\ r.lines[i][1].kind = "body"
    BY <1>2, <1>5 DEF CanRead, Parses
  <2> QED BY <2>1, <2>2
<1>7. \A i \in 1..n : 1 \in DOMAIN r.lines[i] /\ r.lines[i][1] \in Pieces
  BY <1>6
<1>8. events = [i \in 1..n |-> r.lines[i][1].of]
  BY <1>3, <1>5 DEF EventsOf
<1>9. \A i \in 1..n : events[i] \in Begun
  BY <1>2, <1>5, <1>7, <1>8 DEF ReadInv, Known
<1>10. events \in Seq(Writes) /\ DOMAIN events = 1..n
  <2>1. \A i \in 1..n : events[i] \in Writes
    BY <1>9 DEF Begun
  <2>2. events \in [1..n -> Writes]
    BY <1>8, <2>1
  <2> QED BY <2>2
<1>11. ASSUME NEW i \in 1..n, NEW j \in 1..n, events[i] = events[j] PROVE i = j
  <2>1. r.lines[i][1] = r.lines[j][1]
    BY <1>6, <1>7, <1>8, <1>11 DEF Pieces
  <2> QED BY <1>2, <1>5, <1>6, <1>7, <2>1 DEF ReadInv, Once
<1> QED BY <1>1, <1>3, <1>5, <1>9, <1>10, <1>11, ReadersRead

(* As long as the file can be read, what a query goes through holds every  *)
(* event whose write returned, once (iter_audit_events).                   *)
THEOREM WrittenIsFound == Spec => []WrittenIsRead
<1>1. AuditInv => WrittenIsRead
  <2> SUFFICES ASSUME AuditInv, Readable
               PROVE  /\ Written \subseteq {AuditEvents[i] : i \in DOMAIN AuditEvents}
                      /\ \A i, j \in DOMAIN AuditEvents : i # j => AuditEvents[i] # AuditEvents[j]
    BY DEF WrittenIsRead
  <2>1. ASSUME NEW w \in Written
        PROVE  \E i \in DOMAIN AuditEvents : AuditEvents[i] = w
    <3>1. w \in Kept
      BY DEF Written, Kept
    <3>2. PICK i \in DOMAIN Lines : \E k \in DOMAIN Lines[i] : Lines[i][k].of = w
      BY <3>1, ReadersRead DEF AuditInv, ReadInv, Held
    <3>3. PICK k \in DOMAIN Lines[i] : Lines[i][k].of = w
      BY <3>2
    <3>4. Lines[i] \in Seq(Pieces) /\ Len(Lines[i]) = 1
      <4>1. Lines \in Seq(Seq(Pieces))
        BY ReadersRead DEF AuditInv, ReadInv, WellRead
      <4> QED BY <4>1 DEF Readable, Parses
    <3>5. k = 1
      BY <3>4
    <3>6. AuditEvents[i] = w /\ i \in DOMAIN AuditEvents
      BY <3>3, <3>5 DEF AuditEvents
    <3> QED BY <3>6
  <2> QED BY <2>1, ReadOfWrites
<1> QED BY <1>1, AuditInvAlways, PTL

(* To its readers the file is AuditStore: it grows by one whole event at a *)
(* time, none twice, until it can no longer be read, and then for good.    *)
THEOREM ReadersSeeTheStore == Spec => ReadersSeeAStore
<1>1. Init => Store!Init
  <2> SUFFICES ASSUME Init PROVE Store!Init
    OBVIOUS
  <2>1. AuditInv
    BY InitAuditInv
  <2>2. PICK r : r = Read(file)
    OBVIOUS
  <2>3. r.lines = <<>> /\ DOMAIN r.lines = {}
    BY <2>2, ReadNothing DEF Init, NothingRead
  <2>4. CanRead(r)
    BY <2>3 DEF CanRead
  <2>5. AuditEvents \in Seq(Writes) /\ DOMAIN AuditEvents = {} /\ Readable
    BY <2>1, <2>2, <2>3, <2>4, ReadOfWrites, ReadersRead
  <2>6. AuditEvents = <<>>
    BY <2>5
  <2> QED BY <2>5, <2>6 DEF Store!Init
<1>2. AuditInv /\ [Next]_vars => [Store!Next]_<<IF Readable THEN AuditEvents ELSE <<>>, Readable>>
  <2> SUFFICES ASSUME AuditInv, [Next]_vars
               PROVE  [Store!Next]_<<IF Readable THEN AuditEvents ELSE <<>>, Readable>>
    OBVIOUS
  <2>1. StoreGrows
    BY NextAuditInv
  <2>2. /\ Readable <=> CanRead(Read(file))
        /\ AuditEvents = EventsOf(Read(file))
        /\ Readable' <=> CanRead(Read(file'))
        /\ AuditEvents' = EventsOf(Read(file'))
    <3>1. Lines' = Read(file').lines
      BY DEF Lines, Read
    <3>2. (Readable' <=> CanRead(Read(file'))) /\ AuditEvents' = EventsOf(Read(file'))
      BY <3>1 DEF Readable, CanRead, AuditEvents, EventsOf
    <3> QED BY <3>2, ReadersRead
  <2>3. Readable \in BOOLEAN /\ Readable' \in BOOLEAN
    BY DEF Readable
  <2>4. CASE ~Readable'
    <3>1. CASE Readable
      <4>1. Store!Break
        BY <2>3, <2>4, <3>1 DEF Store!Break
      <4> QED BY <4>1 DEF Store!Next
    <3>2. CASE ~Readable
      <4>1. Readable' = Readable
        BY <2>3, <2>4, <3>2
      <4>2. UNCHANGED <<IF Readable THEN AuditEvents ELSE <<>>, Readable>>
        BY <2>4, <3>2, <4>1
      <4> QED BY <4>2
    <3> QED BY <3>1, <3>2
  <2>5. CASE Readable' /\ Readable
    <3>1. Readable' = Readable
      BY <2>3, <2>5
    <3>2. CASE AuditEvents' = AuditEvents
      <4>1. UNCHANGED <<IF Readable THEN AuditEvents ELSE <<>>, Readable>>
        BY <2>5, <3>1, <3>2
      <4> QED BY <4>1
    <3>3. ASSUME NEW w \in Writes \ Begun, AuditEvents' = Append(AuditEvents, w)
          PROVE  Store!Next
      <4>1. w \notin {AuditEvents[i] : i \in DOMAIN AuditEvents}
        BY <2>5, <3>3, ReadOfWrites
      <4>2. PICK log : log = IF Readable THEN AuditEvents ELSE <<>>
        OBVIOUS
      <4>3. log = AuditEvents
        BY <2>5, <4>2
      <4>4. (IF Readable THEN AuditEvents ELSE <<>>)' = Append(log, w)
        BY <2>5, <3>3, <4>3
      <4>5. Store!Append1(w)
        BY <2>5, <3>1, <4>2, <4>4 DEF Store!Append1
      <4>6. w \notin {log[i] : i \in DOMAIN log}
        BY <4>1, <4>3
      <4> QED BY <4>2, <4>5, <4>6 DEF Store!Next
    <3>4. \/ AuditEvents' = AuditEvents
          \/ \E w \in Writes \ Begun : AuditEvents' = Append(AuditEvents, w)
      BY <2>1, <2>2, <2>5 DEF StoreGrows
    <3>5. CASE \E w \in Writes \ Begun : AuditEvents' = Append(AuditEvents, w)
      <4>1. Store!Next
        BY <3>3, <3>5
      <4> QED BY <4>1
    <3> QED BY <3>2, <3>4, <3>5
  <2>6. ~Readable' \/ (Readable' /\ Readable)
    BY <2>1, <2>2 DEF StoreGrows
  <2> QED BY <2>4, <2>5, <2>6
<1> QED BY <1>1, <1>2, AuditInvAlways, PTL DEF Spec, ReadersSeeAStore, Store!Spec

-----------------------------------------------------------------------------
(* Queries.                                                                *)

Selecting == INSTANCE FoldLemmas WITH Step <- Collect, Holds <- Matches

(* res holds, in their order and at places g of the events, those of the   *)
(* first k that match.                                                     *)
Selected(filter, events, res, g, k) ==
    /\ res \in Seq(Writes) /\ g \in [1..Len(res) -> 1..k]
    /\ \A i, j \in 1..Len(res) : i < j => g[i] < g[j]
    /\ \A j \in 1..Len(res) : res[j] = events[g[j]] /\ Matches(res[j], filter)
    /\ \A i \in 1..k : Matches(events[i], filter) => \E j \in 1..Len(res) : g[j] = i

LEMMA CollectSelects ==
    ASSUME NEW filter, NEW events \in Seq(Writes), NEW k \in 1..Len(events),
           NEW res, NEW g, Selected(filter, events, res, g, k - 1)
    PROVE  \E h : Selected(filter, events, Collect(filter, res, events[k]), h, k)
<1>1. PICK w \in Writes : w = events[k]
  OBVIOUS
<1>2. PICK n \in Nat : n = Len(res) /\ res \in Seq(Writes)
  BY DEF Selected
<1>3. /\ g \in [1..n -> 1..(k - 1)] /\ \A i, j \in 1..n : i < j => g[i] < g[j]
      /\ \A j \in 1..n : res[j] = events[g[j]] /\ Matches(res[j], filter)
      /\ \A i \in 1..(k - 1) : Matches(events[i], filter) => \E j \in 1..n : g[j] = i
  BY <1>2 DEF Selected
<1>4. k \in Nat /\ k > 0
  OBVIOUS
<1>5. CASE Matches(w, filter)
  <2>1. PICK more : more = Append(res, w)
    OBVIOUS
  <2>2. /\ more \in Seq(Writes) /\ Len(more) = n + 1 /\ more[n + 1] = w
        /\ \A i \in 1..n : more[i] = res[i]
    BY <1>2, <2>1, AppendProperties
  <2>3. Collect(filter, res, events[k]) = more
    BY <1>1, <1>5, <2>1 DEF Collect
  <2>4. PICK h : h = [j \in 1..(n + 1) |-> IF j = n + 1 THEN k ELSE g[j]]
    OBVIOUS
  <2>5. /\ h[n + 1] = k /\ \A j \in 1..n : h[j] = g[j] /\ g[j] \in 1..(k - 1)
    BY <1>3, <2>4
  <2>6. h \in [1..(n + 1) -> 1..k]
    <3>1. \A j \in 1..(n + 1) : h[j] \in 1..k
      BY <1>4, <2>5
    <3> QED BY <2>4, <3>1
  <2>7. ASSUME NEW i \in 1..(n + 1), NEW j \in 1..(n + 1), i < j PROVE h[i] < h[j]
    <3>1. i \in 1..n /\ h[i] = g[i] /\ g[i] \in 1..(k - 1)
      BY <2>5, <2>7
    <3>2. CASE j = n + 1
      BY <1>4, <2>5, <3>1, <3>2
    <3>3. CASE j # n + 1
      <4>1. j \in 1..n
        BY <3>3
      <4> QED BY <1>3, <2>5, <2>7, <3>1, <4>1
    <3> QED BY <3>2, <3>3
  <2>8. \A j \in 1..(n + 1) : more[j] = events[h[j]] /\ Matches(more[j], filter)
    BY <1>1, <1>3, <1>5, <2>2, <2>5
  <2>9. ASSUME NEW i \in 1..k, Matches(events[i], filter) PROVE \E j \in 1..(n + 1) : h[j] = i
    <3>1. CASE i = k
      BY <2>5, <3>1
    <3>2. CASE i # k
      <4>1. i \in 1..(k - 1)
        BY <1>4, <3>2
      <4>2. PICK j \in 1..n : g[j] = i
        BY <1>3, <2>9, <4>1
      <4>3. j \in 1..(n + 1) /\ h[j] = i
        BY <2>5, <4>2
      <4> QED BY <4>3
    <3> QED BY <3>1, <3>2
  <2>10. Selected(filter, events, more, h, k)
    BY <2>2, <2>6, <2>7, <2>8, <2>9 DEF Selected
  <2> QED BY <2>3, <2>10
<1>6. CASE ~Matches(w, filter)
  <2>1. Collect(filter, res, events[k]) = res
    BY <1>1, <1>6 DEF Collect
  <2>2. g \in [1..n -> 1..k]
    <3>1. \A j \in 1..n : g[j] \in 1..k
      BY <1>3, <1>4
    <3> QED BY <1>3, <3>1
  <2>3. ASSUME NEW i \in 1..k, Matches(events[i], filter) PROVE \E j \in 1..n : g[j] = i
    <3>1. i # k
      BY <1>1, <1>6, <2>3
    <3>2. i \in 1..(k - 1)
      BY <1>4, <3>1
    <3> QED BY <1>3, <2>3, <3>2
  <2>4. Selected(filter, events, res, g, k)
    BY <1>2, <1>3, <2>2, <2>3 DEF Selected
  <2> QED BY <2>1, <2>4
<1> QED BY <1>5, <1>6

LEMMA MatchingSelects ==
    ASSUME NEW filter, NEW events \in Seq(Writes)
    PROVE  \E g : Selected(filter, events, Matching(filter, events), g, Len(events))
<1>1. Matching(filter, events) = Selecting!Folded(filter, <<>>, events)
  BY DEF Matching, Selecting!Folded, FoldLeft, MapThenFoldSet, Max,
         Selecting!FoldLeft, Selecting!MapThenFoldSet, Selecting!Max
<1>2. PICK f : /\ f[0] = <<>> /\ f[Len(events)] = Matching(filter, events)
               /\ \A k \in 1..Len(events) : f[k] = Collect(filter, f[k - 1], events[k])
  BY <1>1, Selecting!FoldSteps
<1>3. PICK n \in Nat : n = Len(events)
  OBVIOUS
<1> DEFINE Good(k) == \E g : Selected(filter, events, f[k], g, k)
           Bad == {k \in 0..n : ~Good(k)}
<1>4. Good(0)
  <2>1. PICK res : res = f[0]
    OBVIOUS
  <2>2. res \in Seq(Writes) /\ Len(res) = 0
    BY <1>2, <2>1
  <2>3. PICK g : g = [j \in {} |-> j]
    OBVIOUS
  <2>4. 1..0 = {} /\ g \in [{} -> {}]
    BY <2>3
  <2>5. Selected(filter, events, res, g, 0)
    BY <2>2, <2>4 DEF Selected
  <2> QED BY <2>1, <2>5
<1>5. ASSUME NEW k \in 1..n, Good(k - 1) PROVE Good(k)
  <2>1. PICK g : Selected(filter, events, f[k - 1], g, k - 1)
    BY <1>5
  <2>2. f[k] = Collect(filter, f[k - 1], events[k]) /\ k \in 1..Len(events)
    BY <1>2, <1>3
  <2> QED BY <2>1, <2>2, CollectSelects
<1> HIDE DEF Good
<1>6. ASSUME Bad # {} PROVE FALSE
  <2>1. Bad \in SUBSET Nat
    OBVIOUS
  <2>2. PICK m \in Bad : \A k \in Bad : m <= k
    BY ONLY <1>6, <2>1, Selecting!Least
  <2>3. m \in 0..n /\ ~Good(m) /\ m # 0
    BY <1>4
  <2>4. m \in 1..n /\ m - 1 \in 0..n /\ m - 1 \notin Bad
    BY <2>2, <2>3
  <2> QED BY <1>5, <2>3, <2>4
<1>7. n \in 0..n
  OBVIOUS
<1>8. Good(n)
  BY <1>6, <1>7
<1> QED BY <1>2, <1>3, <1>8 DEF Good

Place(events, v) == CHOOSE p \in DOMAIN events : events[p] = v

(* Of res, the latest ones, and for all that is left out, later ones.      *)
LEMMA LatestOfSelected ==
    ASSUME NEW filter, NEW events \in Seq(Writes), NEW limit \in 1..Len(events),
           \A i, j \in DOMAIN events : events[i] = events[j] => i = j,
           NEW result, result = Latest(Matching(filter, events), limit),
           NEW i \in DOMAIN events
    PROVE  IF events[i] \in {result[x] : x \in DOMAIN result}
           THEN Matches(events[i], filter)
           ELSE Matches(events[i], filter) =>
                   /\ Len(result) = limit
                   /\ \A v \in {result[x] : x \in DOMAIN result} :
                         Place(events, v) > i
<1>1. PICK res : res = Matching(filter, events)
  OBVIOUS
<1>2. PICK size \in Nat : size = Len(events) /\ DOMAIN events = 1..size
  OBVIOUS
<1>3. PICK g : Selected(filter, events, res, g, size)
  BY <1>1, <1>2, MatchingSelects
<1>4. PICK n \in Nat : n = Len(res) /\ res \in Seq(Writes)
  BY <1>3 DEF Selected
<1>5. /\ g \in [1..n -> 1..size] /\ \A j, k \in 1..n : j < k => g[j] < g[k]
      /\ \A j \in 1..n : res[j] = events[g[j]] /\ Matches(res[j], filter)
      /\ \A j \in 1..size : Matches(events[j], filter) => \E k \in 1..n : g[k] = j
  BY <1>3, <1>4 DEF Selected
<1>6. limit \in Nat /\ limit > 0
  OBVIOUS
<1>7. CASE limit \in 1..n
  <2>1. PICK from \in Nat : from = n - limit
    BY <1>7
  <2>2. result = SubSeq(res, from + 1, n)
    <3>1. n - limit + 1 = from + 1
      BY <1>6, <2>1
    <3> QED BY <1>1, <1>4, <1>7, <3>1 DEF Latest
  <2>3. /\ Len(result) = limit /\ DOMAIN result = 1..limit
        /\ \A x \in 1..limit : result[x] = res[from + x] /\ from + x \in 1..n
    <3>1. from + 1 \in 1..(n + 1) /\ from + 1 \in 1..n /\ n \in 1..n
      BY <1>6, <1>7, <2>1
    <3>2. /\ result \in Seq(Writes) /\ Len(result) = n - (from + 1) + 1
          /\ \A x \in 1..(n - (from + 1) + 1) : result[x] = res[(from + 1) + x - 1]
      BY <1>4, <2>2, <3>1, SubSeqProperties
    <3>3. n - (from + 1) + 1 = limit /\ \A x \in 1..limit : (from + 1) + x - 1 = from + x
      BY <1>6, <2>1
    <3>4. \A x \in 1..limit : from + x \in 1..n
      BY <1>6, <1>7, <2>1
    <3> QED BY <3>2, <3>3, <3>4
  <2>4. \A x \in 1..limit : Matches(result[x], filter)
    BY <1>5, <2>3
  <2>5. ASSUME Matches(events[i], filter), events[i] \notin {result[x] : x \in DOMAIN result},
               NEW x \in 1..limit
        PROVE  Place(events, result[x]) > i
    <3>1. PICK j \in 1..n : g[j] = i
      BY <1>2, <1>5, <2>5
    <3>2. j < from + x
      <4>1. CASE j > from
        <5>1. j - from \in 1..limit /\ from + (j - from) = j
          BY <1>6, <2>1, <4>1
        <5>2. result[j - from] = res[j]
          BY <2>3, <5>1
        <5>3. res[j] = events[i]
          BY <1>5, <3>1
        <5>4. events[i] \in {result[y] : y \in DOMAIN result}
          BY <2>3, <5>1, <5>2, <5>3
        <5> QED BY <2>5, <5>4
      <4>2. CASE j <= from
        BY <2>1, <4>2
      <4> QED BY <2>1, <4>1, <4>2
    <3>3. from + x \in 1..n /\ result[x] = events[g[from + x]] /\ g[from + x] \in 1..size
      BY <1>5, <2>3
    <3>4. i < g[from + x]
      BY <1>5, <3>1, <3>2, <3>3
    <3>5. Place(events, result[x]) = g[from + x]
      <4>1. Place(events, result[x]) \in DOMAIN events /\ events[Place(events, result[x])] = result[x]
        BY <1>2, <3>3 DEF Place
      <4> QED BY <1>2, <3>3, <4>1
    <3> QED BY <3>4, <3>5
  <2> QED BY <2>3, <2>4, <2>5
<1>8. CASE limit \notin 1..n
  <2>1. result = res
    BY <1>1, <1>4, <1>8 DEF Latest
  <2>2. DOMAIN result = 1..n
    BY <1>4, <2>1
  <2>3. \A j \in 1..n : Matches(result[j], filter)
    BY <1>5, <2>1
  <2>4. ASSUME Matches(events[i], filter) PROVE \E j \in 1..n : result[j] = events[i]
    <3>1. PICK j \in 1..n : g[j] = i
      BY <1>2, <1>5, <2>4
    <3> QED BY <1>5, <2>1, <3>1
  <2>5. ASSUME events[i] \in {result[x] : x \in DOMAIN result} PROVE Matches(events[i], filter)
    <3>1. PICK x \in 1..n : events[i] = result[x]
      BY <2>2, <2>5
    <3> QED BY <2>3, <3>1
  <2>6. ASSUME Matches(events[i], filter) PROVE events[i] \in {result[x] : x \in DOMAIN result}
    BY <2>2, <2>4, <2>6
  <2> QED BY <2>5, <2>6
<1> QED BY <1>7, <1>8

(* A query with a limit answers with events that match, and leaves one out *)
(* only for as many later ones (query_audit_events).                       *)
THEOREM QueriesReturnTheLatest == Spec => []LatestMatchesAreReturned
<1>1. AuditInv => LatestMatchesAreReturned
  <2> SUFFICES ASSUME AuditInv, Readable, NEW filter \in Filters, NEW limit \in 1..Len(AuditEvents),
                      NEW i \in DOMAIN AuditEvents
               PROVE  LET result   == Query(filter, limit)
                          returned == {result[x] : x \in DOMAIN result}
                      IN  IF AuditEvents[i] \in returned
                          THEN Matches(AuditEvents[i], filter)
                          ELSE Matches(AuditEvents[i], filter) =>
                                  /\ Len(result) = limit
                                  /\ \A v \in returned : Place(AuditEvents, v) > i
    BY DEF LatestMatchesAreReturned, Place
  <2>1. /\ AuditEvents \in Seq(Writes)
        /\ \A j, k \in DOMAIN AuditEvents : AuditEvents[j] = AuditEvents[k] => j = k
    BY ReadOfWrites
  <2>2. PICK result : result = Query(filter, limit)
    OBVIOUS
  <2>3. result = Latest(Matching(filter, AuditEvents), limit)
    BY <2>2 DEF Query
  <2>4. IF AuditEvents[i] \in {result[x] : x \in DOMAIN result}
        THEN Matches(AuditEvents[i], filter)
        ELSE Matches(AuditEvents[i], filter) =>
                /\ Len(result) = limit
                /\ \A v \in {result[x] : x \in DOMAIN result} : Place(AuditEvents, v) > i
    <3>1. PICK events : events = AuditEvents
      OBVIOUS
    <3>2. /\ events \in Seq(Writes) /\ limit \in 1..Len(events) /\ i \in DOMAIN events
          /\ \A j, k \in DOMAIN events : events[j] = events[k] => j = k
      BY <2>1, <3>1
    <3>3. result = Latest(Matching(filter, events), limit)
      BY <2>3, <3>1
    <3>4. IF events[i] \in {result[x] : x \in DOMAIN result}
          THEN Matches(events[i], filter)
          ELSE Matches(events[i], filter) =>
                  /\ Len(result) = limit
                  /\ \A v \in {result[x] : x \in DOMAIN result} : Place(events, v) > i
      BY <3>2, <3>3, LatestOfSelected
    <3> QED BY <3>1, <3>4
  <2> QED BY <2>2, <2>4
<1> QED BY <1>1, AuditInvAlways, PTL
=============================================================================
