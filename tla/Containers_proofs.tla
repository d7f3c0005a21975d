------------------------- MODULE Containers_proofs -------------------------
(* What the readers of the containers make of a file some writer wrote, for  *)
(* every state, record, report and layout: a reader that accepts a file, or  *)
(* the beginning of one, holds what the writer was given.  Induction over a  *)
(* file's fields or stages is by the least number for which a fact fails.    *)
EXTENDS NamedContainers, WellFoundedInduction, TLAPS

-----------------------------------------------------------------------------
(* Sequences.  Of the fields of a file it only matters that there are so     *)
(* many, one after the other.                                                *)
IsSequence(s) == \E S : s \in Seq(S)

(* What has been read so far, and a list of items under different names.     *)
Reader(r) ==
  /\ r = [ok |-> r.ok, at |-> r.at, got |-> r.got]
  /\ r.ok \in BOOLEAN /\ r.at \in Nat

Distinct(items) == \A i, j \in DOMAIN items : items[i][2] = items[j][2] => i = j

(* A function on 1 .. n is a sequence.                                       *)
LEMMA Mapped ==
  ASSUME NEW n \in Nat, NEW f, DOMAIN f = 1 .. n, f = [i \in 1 .. n |-> f[i]]
  PROVE  IsSequence(f) /\ Len(f) = n
<1> DEFINE S == {f[i] : i \in 1 .. n}
<1>1. \A i \in 1 .. n : f[i] \in S
  OBVIOUS
<1> HIDE DEF S
<1>2. f \in Seq(S)
  BY <1>1
<1>3. Len(f) \in Nat /\ DOMAIN f = 1 .. Len(f)
  BY <1>2
<1>4. Len(f) = n
  BY <1>3
<1> QED
  BY <1>2, <1>4 DEF IsSequence

(* Concatenation, of any two sequences.                                      *)
LEMMA Joined ==
  ASSUME NEW s, NEW t, IsSequence(s), IsSequence(t)
  PROVE  /\ IsSequence(s \o t)
         /\ Len(s) \in Nat /\ Len(t) \in Nat /\ Len(s \o t) = Len(s) + Len(t)
         /\ \A i \in 1 .. Len(s) : (s \o t)[i] = s[i]
         /\ \A i \in 1 .. Len(t) : (s \o t)[Len(s) + i] = t[i]
<1>1. PICK S : s \in Seq(S)
  BY DEF IsSequence
<1>2. PICK T : t \in Seq(T)
  BY DEF IsSequence
<1>3. s \in Seq(S \cup T) /\ t \in Seq(S \cup T)
  BY <1>1, <1>2
<1>4. s \o t \in Seq(S \cup T)
  BY <1>3
<1> QED
  BY <1>3, <1>4 DEF IsSequence

(* Sequences written out.                                                    *)
LEMMA ShortSequences ==
  /\ IsSequence(<<>>) /\ Len(<<>>) = 0
  /\ \A a : IsSequence(<<a>>) /\ Len(<<a>>) = 1 /\ <<a>>[1] = a
  /\ \A a, b : IsSequence(<<a, b>>) /\ Len(<<a, b>>) = 2
  /\ \A a, b, c, d, e :
       /\ IsSequence(<<a, b, c, d, e>>) /\ Len(<<a, b, c, d, e>>) = 5
       /\ <<a, b, c, d, e>>[1] = a /\ <<a, b, c, d, e>>[2] = b
       /\ <<a, b, c, d, e>>[4] = d /\ <<a, b, c, d, e>>[5] = e
<1>1. IsSequence(<<>>)
  <2>1. <<>> \in Seq({})
    OBVIOUS
  <2> QED
    BY <2>1 DEF IsSequence
<1>2. \A a : IsSequence(<<a>>)
  <2> TAKE a
  <2>1. <<a>> \in Seq({a})
    OBVIOUS
  <2> QED
    BY <2>1 DEF IsSequence
<1>3. \A a, b : IsSequence(<<a, b>>)
  <2> TAKE a, b
  <2>1. <<a, b>> \in Seq({a, b})
    OBVIOUS
  <2> QED
    BY <2>1 DEF IsSequence
<1>4. \A a, b, c, d, e : IsSequence(<<a, b, c, d, e>>)
  <2> TAKE a, b, c, d, e
  <2>1. <<a, b, c, d, e>> \in Seq({a, b, c, d, e})
    OBVIOUS
  <2> QED
    BY <2>1 DEF IsSequence
<1> QED
  BY <1>1, <1>2, <1>3, <1>4

LEMMA OptionalSequence ==
  ASSUME NEW c, NEW s, IsSequence(s)
  PROVE  IsSequence(Optional(c, s))
BY ShortSequences DEF Optional

(* Over() keeps the entries of the first and adds those of the second.       *)
LEMMA Overlaid ==
  ASSUME NEW f, NEW g
  PROVE  /\ DOMAIN Over(f, g) = DOMAIN f \cup DOMAIN g
         /\ \A x \in DOMAIN f : Over(f, g)[x] = f[x]
         /\ \A x \in DOMAIN g \ DOMAIN f : Over(f, g)[x] = g[x]
BY DEF Over

(* A check changes nothing but the outcome.                                  *)
LEMMA Demanded ==
  ASSUME NEW r, Reader(r), NEW condition \in BOOLEAN
  PROVE  /\ Reader(Demand(r, condition))
         /\ Demand(r, condition).ok = (r.ok /\ condition)
         /\ Demand(r, condition).at = r.at /\ Demand(r, condition).got = r.got
BY DEF Reader, Demand

LEMMA Pairs ==
  ASSUME NEW x, NEW y
  PROVE  <<x>> \o <<y>> = <<x, y>>
<1> DEFINE s == <<x>> \o <<y>>
           t == <<x, y>>
<1>1. s \in Seq({x, y}) /\ t \in Seq({x, y})
  OBVIOUS
<1>2. Len(s) = 2 /\ s[1] = x /\ s[2] = y
  BY Joined, ShortSequences
<1>3. Len(t) = 2 /\ t[1] = x /\ t[2] = y
  OBVIOUS
<1> HIDE DEF s, t
<1>4. s = t
  <2>1. DOMAIN s = 1 .. 2 /\ DOMAIN t = 1 .. 2
    BY <1>1, <1>2, <1>3
  <2>2. s = [i \in 1 .. 2 |-> s[i]] /\ t = [i \in 1 .. 2 |-> t[i]]
    BY <1>1, <2>1
  <2>3. \A i \in 1 .. 2 : s[i] = t[i]
    BY <1>2, <1>3
  <2> QED
    BY <2>2, <2>3
<1> QED
  BY <1>4 DEF s, t

(* As far as the file goes, the fields behind the first `at` are those of s. *)
Ahead(file, at, s) ==
  \A i \in 1 .. Len(s) : at + i <= Len(file) => file[at + i] = s[i]

(* What lies ahead in a file, one part after the other.                      *)
LEMMA AheadSplits ==
  ASSUME NEW file, Len(file) \in Nat, NEW at \in Nat,
         NEW s, IsSequence(s), NEW t, IsSequence(t), Ahead(file, at, s \o t)
  PROVE  Ahead(file, at, s) /\ Ahead(file, at + Len(s), t)
<1>1. /\ Len(s) \in Nat /\ Len(t) \in Nat /\ Len(s \o t) = Len(s) + Len(t)
      /\ \A i \in 1 .. Len(s) : (s \o t)[i] = s[i]
      /\ \A i \in 1 .. Len(t) : (s \o t)[Len(s) + i] = t[i]
  BY Joined
<1> DEFINE w == s \o t
<1>2. \A i \in 1 .. Len(w) : at + i <= Len(file) => file[at + i] = w[i]
  BY DEF Ahead
<1> HIDE DEF w
<1>3. /\ Len(w) = Len(s) + Len(t)
      /\ \A i \in 1 .. Len(s) : w[i] = s[i]
      /\ \A i \in 1 .. Len(t) : w[Len(s) + i] = t[i]
  BY <1>1 DEF w
<1>4. ASSUME NEW i \in 1 .. Len(s), at + i <= Len(file)
      PROVE  file[at + i] = s[i]
  BY <1>1, <1>2, <1>3, <1>4
<1>5. ASSUME NEW i \in 1 .. Len(t), at + Len(s) + i <= Len(file)
      PROVE  file[at + Len(s) + i] = t[i]
  <2>1. Len(s) + i \in 1 .. Len(w) /\ at + (Len(s) + i) <= Len(file)
    BY <1>1, <1>3, <1>5
  <2>2. file[at + (Len(s) + i)] = w[Len(s) + i]
    BY <1>2, <2>1
  <2>3. at + (Len(s) + i) = at + Len(s) + i
    BY <1>1
  <2> QED
    BY <1>3, <2>2, <2>3
<1> QED
  BY <1>4, <1>5 DEF Ahead

(* A step of a reader: t comes from r by reading n fields, which are there,  *)
(* and knows what they are by the names in news.                             *)
Advances(r, t, file, n, news) ==
  /\ Reader(t)
  /\ t.ok <=> r.ok /\ r.at + n <= Len(file)
  /\ t.ok => /\ t.at = r.at + n
             /\ DOMAIN t.got = DOMAIN news \cup DOMAIN r.got
             /\ \A x \in DOMAIN news : t.got[x] = news[x]
             /\ \A x \in DOMAIN r.got \ DOMAIN news : t.got[x] = r.got[x]

(* What items find in s, field by field.                                     *)
Finds(items, s, news) ==
  /\ IsSequence(items) /\ Distinct(items) /\ Len(s) = Len(items)
  /\ DOMAIN news = {items[k][2] : k \in 1 .. Len(items)}
  /\ \A k \in 1 .. Len(items) : s[k] = F(items[k][1], news[items[k][2]])

(* A field that is read as what it is.                                       *)
LEMMA TakenIs ==
  \A type, value : Taken(F(type, value), type) = value
<1> TAKE type, value
<1>1. F(type, value).type = type /\ F(type, value).value = value
  BY DEF F
<1> QED
  BY <1>1 DEF Taken

(* A read of the fields that are ahead gets their values under their names,  *)
(* and succeeds just when the file has them all.                             *)
LEMMA TakeAdvances ==
  ASSUME NEW r, Reader(r), NEW file, Len(file) \in Nat, NEW items, NEW s, NEW news,
         Finds(items, s, news), r.ok => Ahead(file, r.at, s)
  PROVE  Advances(r, Take(r, file, items), file, Len(items), news)
<1> DEFINE t == Take(r, file, items)
           names == {items[k][2] : k \in DOMAIN items}
           At(name) == CHOOSE i \in DOMAIN items : items[i][2] = name
           taken == [x \in names |-> Taken(file[r.at + At(x)], items[At(x)][1])]
           n == Len(items)
<1>1. n \in Nat /\ DOMAIN items = 1 .. n
  <2>1. PICK S : items \in Seq(S)
    BY DEF Finds, IsSequence
  <2> QED
    BY <2>1
<1>2. \A k \in 1 .. n : items[k][2] \in names /\ At(items[k][2]) = k
  BY <1>1 DEF Finds, Distinct
<1>3. DOMAIN taken = names /\ DOMAIN news = names
  BY <1>1 DEF Finds
<1>4. \A k \in 1 .. n : taken[items[k][2]] = Taken(file[r.at + k], items[k][1])
  BY <1>2
<1>5. t = IF ~r.ok \/ r.at + n > Len(file) THEN [r EXCEPT !.ok = FALSE]
          ELSE [ok |-> TRUE, at |-> r.at + n, got |-> Over(taken, r.got)]
  BY DEF Take
<1>6. \A x \in names : \E k \in 1 .. n : x = items[k][2]
  BY <1>1
<1> HIDE DEF t, names, taken, n
<1>7. CASE ~r.ok \/ r.at + n > Len(file)
  <2>1. t = [r EXCEPT !.ok = FALSE]
    BY <1>5, <1>7
  <2>2. Reader(t) /\ ~t.ok
    BY <2>1 DEF Reader
  <2> QED
    BY <1>1, <1>7, <2>2 DEF t, n, Advances, Reader
<1>8. CASE r.ok /\ ~(r.at + n > Len(file))
  <2>1. t = [ok |-> TRUE, at |-> r.at + n, got |-> Over(taken, r.got)]
    BY <1>5, <1>8
  <2>2. t.ok = TRUE /\ t.at = r.at + n /\ t.got = Over(taken, r.got)
    BY <2>1
  <2>3. r.at \in Nat /\ r.at + n <= Len(file)
    BY <1>1, <1>8 DEF Reader
  <2>4. Reader(t)
    BY <1>1, <2>1, <2>2, <2>3 DEF Reader
  <2>5. /\ DOMAIN t.got = names \cup DOMAIN r.got
        /\ \A x \in names : t.got[x] = taken[x]
        /\ \A x \in DOMAIN r.got \ names : t.got[x] = r.got[x]
    <3>1. /\ DOMAIN Over(taken, r.got) = DOMAIN taken \cup DOMAIN r.got
          /\ \A x \in DOMAIN taken : Over(taken, r.got)[x] = taken[x]
          /\ \A x \in DOMAIN r.got \ DOMAIN taken : Over(taken, r.got)[x] = r.got[x]
      BY Overlaid
    <3> QED
      BY <1>3, <2>2, <3>1
  <2>6. \A k \in 1 .. n : taken[items[k][2]] = news[items[k][2]]
    <3> SUFFICES ASSUME NEW k \in 1 .. n
                 PROVE  taken[items[k][2]] = news[items[k][2]]
      OBVIOUS
    <3>1. k \in 1 .. Len(s) /\ r.at + k <= Len(file) /\ k \in 1 .. Len(items)
      BY <1>1, <2>3 DEF Finds, n
    <3>2. file[r.at + k] = s[k]
      BY <1>8, <3>1 DEF Ahead
    <3>3. s[k] = F(items[k][1], news[items[k][2]])
      BY <3>1 DEF Finds
    <3> QED
      BY <1>4, <3>2, <3>3, TakenIs
  <2>7. \A x \in names : taken[x] = news[x]
    BY <1>6, <2>6
  <2> QED
    BY <1>3, <1>8, <2>2, <2>3, <2>4, <2>5, <2>7 DEF t, n, Advances
<1> QED
  BY <1>7, <1>8 DEF Reader

(* The same for a run of fields of one type.                                 *)
LEMMA TakeManyAdvances ==
  ASSUME NEW r, Reader(r), NEW file, Len(file) \in Nat, NEW type, NEW n \in Nat,
         NEW name, NEW values, values = [i \in 1 .. n |-> values[i]],
         NEW s, Len(s) = n, \A i \in 1 .. n : s[i] = F(type, values[i]),
         r.ok => Ahead(file, r.at, s),
         NEW news, DOMAIN news = {name}, news[name] = values
  PROVE  Advances(r, TakeMany(r, file, type, n, name), file, n, news)
<1> DEFINE t == TakeMany(r, file, type, n, name)
           fields == [i \in 1 .. n |-> Taken(file[r.at + i], type)]
           taken == [x \in {name} |-> fields]
<1>1. t = IF ~r.ok \/ n < 0 \/ r.at + n > Len(file) THEN [r EXCEPT !.ok = FALSE]
          ELSE [ok |-> TRUE, at |-> r.at + n, got |-> Over(taken, r.got)]
  BY DEF TakeMany
<1>2. /\ DOMAIN taken = {name} /\ taken[name] = fields
      /\ DOMAIN news = {name} /\ news[name] = values
  OBVIOUS
<1>3. r.at \in Nat /\ r.ok \in BOOLEAN
  BY DEF Reader
<1>4. CASE ~r.ok \/ r.at + n > Len(file)
  <2>1. t = [r EXCEPT !.ok = FALSE]
    BY <1>1, <1>4
  <2> HIDE DEF t
  <2>2. Reader(t) /\ ~t.ok
    BY <2>1 DEF Reader
  <2> QED
    BY <1>3, <1>4, <2>2 DEF t, Advances
<1>5. CASE r.ok /\ r.at + n <= Len(file)
  <2>1. t = [ok |-> TRUE, at |-> r.at + n, got |-> Over(taken, r.got)]
    BY <1>1, <1>3, <1>5
  <2>2. \A i \in 1 .. n : Taken(file[r.at + i], type) = values[i]
    <3> SUFFICES ASSUME NEW i \in 1 .. n
                 PROVE  Taken(file[r.at + i], type) = values[i]
      OBVIOUS
    <3>1. i \in 1 .. Len(s) /\ r.at + i <= Len(file)
      BY <1>3, <1>5
    <3>2. file[r.at + i] = s[i]
      BY <1>5, <3>1 DEF Ahead
    <3> QED
      BY <3>2, TakenIs
  <2>3. fields = values
    BY <2>2
  <2> HIDE DEF t, taken, fields
  <2>4. t.ok = TRUE /\ t.at = r.at + n /\ t.got = Over(taken, r.got)
    BY <2>1
  <2>5. Reader(t)
    BY <1>3, <2>1, <2>4 DEF Reader
  <2>6. /\ DOMAIN t.got = {name} \cup DOMAIN r.got
        /\ \A x \in {name} : t.got[x] = taken[x]
        /\ \A x \in DOMAIN r.got \ {name} : t.got[x] = r.got[x]
    <3>1. /\ DOMAIN Over(taken, r.got) = DOMAIN taken \cup DOMAIN r.got
          /\ \A x \in DOMAIN taken : Over(taken, r.got)[x] = taken[x]
          /\ \A x \in DOMAIN r.got \ DOMAIN taken : Over(taken, r.got)[x] = r.got[x]
      BY ONLY Overlaid
    <3> QED
      BY <1>2, <2>4, <3>1
  <2>7. Advances(r, t, file, n, news)
    BY <1>2, <1>5, <2>3, <2>4, <2>5, <2>6 DEF Advances
  <2> QED
    BY <2>7 DEF t
<1> QED
  BY <1>3, <1>4, <1>5

(* A step of a reader: t comes from r by reading n fields, which are there,  *)
(* and knows what they are by their names, of a table of everything there is *)
(* to be known.                                                              *)
Fills(r, t, file, n, names, table) ==
  /\ Reader(t)
  /\ t.ok <=> r.ok /\ r.at + n <= Len(file)
  /\ t.ok => /\ t.at = r.at + n
             /\ DOMAIN t.got = names \cup DOMAIN r.got
             /\ \A x \in names : t.got[x] = table[x]
             /\ \A x \in DOMAIN r.got \ names : t.got[x] = r.got[x]

(* The same, if what is ahead is s.                                          *)
Reads(r, t, file, s, names, table) ==
  (r.ok => Ahead(file, r.at, s)) => Fills(r, t, file, Len(s), names, table)

(* What a reader m knows that comes from r.                                  *)
Known(r, m, file, names, table) ==
  /\ Reader(m)
  /\ m.ok => /\ r.ok /\ m.at <= Len(file)
             /\ DOMAIN m.got = names \cup DOMAIN r.got
             /\ \A x \in names : m.got[x] = table[x]
             /\ \A x \in DOMAIN r.got \ names : m.got[x] = r.got[x]

(* Reading towards a table of what the file says.                            *)
LEMMA AdvanceFills ==
  ASSUME NEW r, NEW t, NEW file, NEW n, NEW news, Advances(r, t, file, n, news),
         NEW names, names = DOMAIN news,
         NEW table, \A x \in names : news[x] = table[x]
  PROVE  Fills(r, t, file, n, names, table)
BY DEF Advances, Fills

(* Two reads in a row are one.                                               *)
LEMMA FillsOn ==
  ASSUME NEW r, Reader(r), NEW s, NEW t, NEW file, Len(file) \in Nat,
         NEW m \in Nat, NEW n \in Nat, NEW A, NEW B, NEW table,
         Fills(r, s, file, m, A, table), Fills(s, t, file, n, B, table)
  PROVE  Fills(r, t, file, m + n, A \cup B, table)
<1>1. r.at \in Nat
  BY DEF Reader
<1>2. /\ Reader(s) /\ (s.ok <=> r.ok /\ r.at + m <= Len(file))
      /\ s.ok => /\ s.at = r.at + m
                 /\ DOMAIN s.got = A \cup DOMAIN r.got
                 /\ \A x \in A : s.got[x] = table[x]
                 /\ \A x \in DOMAIN r.got \ A : s.got[x] = r.got[x]
  BY DEF Fills
<1>3. /\ Reader(t) /\ (t.ok <=> s.ok /\ s.at + n <= Len(file))
      /\ t.ok => /\ t.at = s.at + n
                 /\ DOMAIN t.got = B \cup DOMAIN s.got
                 /\ \A x \in B : t.got[x] = table[x]
                 /\ \A x \in DOMAIN s.got \ B : t.got[x] = s.got[x]
  BY DEF Fills
<1>4. t.ok <=> r.ok /\ r.at + (m + n) <= Len(file)
  BY <1>1, <1>2, <1>3
<1>5. t.ok => t.at = r.at + (m + n)
  BY <1>1, <1>2, <1>3
<1>6. t.ok => /\ DOMAIN t.got = (A \cup B) \cup DOMAIN r.got
              /\ \A x \in A \cup B : t.got[x] = table[x]
              /\ \A x \in DOMAIN r.got \ (A \cup B) : t.got[x] = r.got[x]
  BY <1>2, <1>3
<1> QED
  BY <1>3, <1>4, <1>5, <1>6 DEF Fills

(* What a successful read knows.                                             *)
LEMMA FillsKnown ==
  ASSUME NEW r, Reader(r), NEW t, NEW file, Len(file) \in Nat, NEW n \in Nat,
         NEW names, NEW table, Fills(r, t, file, n, names, table)
  PROVE  Known(r, t, file, names, table)
BY DEF Fills, Known, Reader

(* One part of a file after the other.                                       *)
LEMMA Then ==
  ASSUME NEW r, Reader(r), NEW m, NEW t, NEW file, Len(file) \in Nat, NEW table,
         NEW a, IsSequence(a), NEW A, NEW b, IsSequence(b), NEW B,
         Reads(r, m, file, a, A, table),
         Known(r, m, file, A, table) => Reads(m, t, file, b, B, table)
  PROVE  Reads(r, t, file, a \o b, A \cup B, table)
<1> SUFFICES ASSUME r.ok => Ahead(file, r.at, a \o b)
             PROVE  Fills(r, t, file, Len(a \o b), A \cup B, table)
  BY DEF Reads
<1>1. Len(a) \in Nat /\ Len(b) \in Nat /\ Len(a \o b) = Len(a) + Len(b)
  BY Joined
<1>2. r.at \in Nat
  BY DEF Reader
<1>3. r.ok => Ahead(file, r.at, a) /\ Ahead(file, r.at + Len(a), b)
  BY <1>2, AheadSplits
<1>4. Fills(r, m, file, Len(a), A, table)
  BY <1>3 DEF Reads
<1>5. Known(r, m, file, A, table)
  BY <1>1, <1>4, FillsKnown
<1>6. m.ok => Ahead(file, m.at, b)
  BY <1>3, <1>4 DEF Fills
<1>7. Fills(m, t, file, Len(b), B, table)
  BY <1>5, <1>6 DEF Reads
<1> QED
  BY <1>1, <1>4, <1>7, FillsOn

(* What is there only in some layouts.                                       *)
LEMMA May ==
  ASSUME NEW r, Reader(r), NEW file, Len(file) \in Nat, r.ok => r.at <= Len(file),
         NEW c \in BOOLEAN, NEW t, NEW s, NEW names, NEW table,
         c => Reads(r, t, file, s, names, table), ~c => t = r
  PROVE  Reads(r, t, file, Optional(c, s), IF c THEN names ELSE {}, table)
<1>1. CASE c
  BY <1>1 DEF Optional
<1>2. CASE ~c
  <2>1. Optional(c, s) = <<>> /\ Len(<<>>) = 0
    BY <1>2 DEF Optional
  <2>2. Fills(r, t, file, 0, {}, table)
    BY <1>2 DEF Fills, Reader
  <2> QED
    BY <1>2, <2>1, <2>2 DEF Reads
<1> QED
  BY <1>1, <1>2

(* A check that holds whenever the reader has not failed changes nothing.    *)
LEMMA DemandHolds ==
  ASSUME NEW r, Reader(r), NEW condition \in BOOLEAN, r.ok => condition
  PROVE  Demand(r, condition) = r
<1>1. (r.ok /\ condition) = r.ok
  BY DEF Reader
<1> QED
  BY <1>1 DEF Demand, Reader

(* A reader that has failed reads no further.                                *)
LEMMA FailsOn ==
  ASSUME NEW r, Reader(r), ~r.ok, NEW file, NEW items, NEW c, NEW type, NEW k,
         NEW name
  PROVE  /\ Reader(TakeIf(c, r, file, items)) /\ ~TakeIf(c, r, file, items).ok
         /\ Reader(Take(r, file, items)) /\ ~Take(r, file, items).ok
         /\ Reader(TakeMany(r, file, type, k, name)) /\ ~TakeMany(r, file, type, k, name).ok
<1> DEFINE e == [r EXCEPT !.ok = FALSE]
<1>1. Reader(e) /\ ~e.ok
  BY DEF Reader
<1>2. Take(r, file, items) = e /\ TakeMany(r, file, type, k, name) = e
  BY DEF Take, TakeMany
<1>3. TakeIf(c, r, file, items) = e \/ TakeIf(c, r, file, items) = r
  BY <1>2 DEF TakeIf
<1> HIDE DEF e
<1> QED
  BY <1>1, <1>2, <1>3

(* The reads of the code, one for each number of fields.                     *)
LEMMA TakeReads ==
  ASSUME NEW r, Reader(r), NEW file, Len(file) \in Nat, NEW table, NEW items, NEW s,
         IsSequence(items), Distinct(items), Len(s) = Len(items),
         \A k \in 1 .. Len(items) : s[k] = F(items[k][1], table[items[k][2]])
  PROVE  Reads(r, Take(r, file, items), file, s, {items[k][2] : k \in 1 .. Len(items)},
               table)
<1> DEFINE names == {items[k][2] : k \in 1 .. Len(items)}
           news == [x \in names |-> table[x]]
           t == Take(r, file, items)
<1>1. DOMAIN news = names /\ \A x \in names : news[x] = table[x]
  OBVIOUS
<1>2. \A k \in 1 .. Len(items) : items[k][2] \in names
  OBVIOUS
<1> HIDE DEF news
<1>3. Finds(items, s, news)
  BY <1>1, <1>2 DEF Finds
<1> SUFFICES ASSUME r.ok => Ahead(file, r.at, s)
             PROVE  Fills(r, t, file, Len(s), names, table)
  BY DEF Reads
<1>4. Advances(r, t, file, Len(items), news)
  BY <1>3, TakeAdvances
<1> HIDE DEF t, names
<1> QED
  BY <1>1, <1>4, AdvanceFills

LEMMA OneReads ==
  ASSUME NEW r, Reader(r), NEW file, Len(file) \in Nat, NEW table, NEW t1, NEW n1,
         NEW v1, v1 = table[n1]
  PROVE  Reads(r, Take(r, file, <<<<t1, n1>>>>), file, <<F(t1, v1)>>, {n1}, table)
<1> DEFINE items == <<<<t1, n1>>>>
           s == <<F(t1, v1)>>
<1>1. /\ IsSequence(items) /\ Len(items) = 1 /\ Len(s) = 1 /\ DOMAIN items = {1}
      /\ items[1] = <<t1, n1>> /\ s[1] = F(t1, v1)
  BY ShortSequences
<1>2. items[1][1] = t1 /\ items[1][2] = n1
  BY <1>1
<1> HIDE DEF items, s
<1>3. 1 .. 1 = {1}
  OBVIOUS
<1>4. {items[k][2] : k \in 1 .. Len(items)} = {n1}
  BY <1>1, <1>2, <1>3
<1>5. Distinct(items) /\ \A k \in 1 .. Len(items) : s[k] = F(items[k][1], table[items[k][2]])
  BY <1>1, <1>2, <1>3 DEF Distinct
<1>6. Reads(r, Take(r, file, items), file, s, {items[k][2] : k \in 1 .. Len(items)}, table)
  BY <1>1, <1>5, TakeReads
<1> QED
  BY <1>4, <1>6 DEF items, s

LEMMA TwoReads ==
  ASSUME NEW r, Reader(r), NEW file, Len(file) \in Nat, NEW table,
         NEW t1, NEW n1, NEW t2, NEW n2, n1 # n2,
         NEW v1, v1 = table[n1], NEW v2, v2 = table[n2]
  PROVE  Reads(r, Take(r, file, <<<<t1, n1>>, <<t2, n2>>>>), file,
               <<F(t1, v1), F(t2, v2)>>, {n1, n2}, table)
<1> DEFINE items == <<<<t1, n1>>, <<t2, n2>>>>
           s == <<F(t1, v1), F(t2, v2)>>
<1>1. /\ IsSequence(items) /\ Len(items) = 2 /\ Len(s) = 2 /\ DOMAIN items = {1, 2}
      /\ items[1] = <<t1, n1>> /\ s[1] = F(t1, v1)
      /\ items[2] = <<t2, n2>> /\ s[2] = F(t2, v2)
  BY ShortSequences
<1>2. /\ items[1][1] = t1 /\ items[1][2] = n1
      /\ items[2][1] = t2 /\ items[2][2] = n2
  BY <1>1
<1> HIDE DEF items, s
<1>3. 1 .. 2 = {1, 2}
  OBVIOUS
<1>4. {items[k][2] : k \in 1 .. Len(items)} = {n1, n2}
  BY <1>1, <1>2, <1>3
<1>5. Distinct(items) /\ \A k \in 1 .. Len(items) : s[k] = F(items[k][1], table[items[k][2]])
  BY <1>1, <1>2, <1>3 DEF Distinct
<1>6. Reads(r, Take(r, file, items), file, s, {items[k][2] : k \in 1 .. Len(items)}, table)
  BY <1>1, <1>5, TakeReads
<1> QED
  BY <1>4, <1>6 DEF items, s

LEMMA ThreeReads ==
  ASSUME NEW r, Reader(r), NEW file, Len(file) \in Nat, NEW table,
         NEW t1, NEW n1, NEW t2, NEW n2, NEW t3, NEW n3, n1 # n2, n1 # n3, n2 # n3,
         NEW v1, v1 = table[n1], NEW v2, v2 = table[n2], NEW v3, v3 = table[n3]
  PROVE  Reads(r, Take(r, file, <<<<t1, n1>>, <<t2, n2>>, <<t3, n3>>>>), file,
               <<F(t1, v1), F(t2, v2), F(t3, v3)>>,
               {n1, n2, n3}, table)
<1> DEFINE items == <<<<t1, n1>>, <<t2, n2>>, <<t3, n3>>>>
           s == <<F(t1, v1), F(t2, v2), F(t3, v3)>>
<1>1. /\ IsSequence(items) /\ Len(items) = 3 /\ Len(s) = 3 /\ DOMAIN items = {1, 2, 3}
      /\ items[1] = <<t1, n1>> /\ s[1] = F(t1, v1)
      /\ items[2] = <<t2, n2>> /\ s[2] = F(t2, v2)
      /\ items[3] = <<t3, n3>> /\ s[3] = F(t3, v3)
  <2>1. \A a, b, c : /\ <<a, b, c>> \in Seq({a, b, c}) /\ Len(<<a, b, c>>) = 3
                     /\ DOMAIN <<a, b, c>> = {1, 2, 3}
                     /\ <<a, b, c>>[1] = a /\ <<a, b, c>>[2] = b /\ <<a, b, c>>[3] = c
    OBVIOUS
  <2> QED
    BY <2>1 DEF IsSequence
<1>2. /\ items[1][1] = t1 /\ items[1][2] = n1
      /\ items[2][1] = t2 /\ items[2][2] = n2
      /\ items[3][1] = t3 /\ items[3][2] = n3
  BY <1>1
<1> HIDE DEF items, s
<1>3. 1 .. 3 = {1, 2, 3}
  OBVIOUS
<1>4. {items[k][2] : k \in 1 .. Len(items)} = {n1, n2, n3}
  BY <1>1, <1>2, <1>3
<1>5. Distinct(items) /\ \A k \in 1 .. Len(items) : s[k] = F(items[k][1], table[items[k][2]])
  BY <1>1, <1>2, <1>3 DEF Distinct
<1>6. Reads(r, Take(r, file, items), file, s, {items[k][2] : k \in 1 .. Len(items)}, table)
  BY <1>1, <1>5, TakeReads
<1> QED
  BY <1>4, <1>6 DEF items, s

(* A run of fields of one type, whose number is known.                       *)
Run(values, n) == values = [i \in 1 .. n |-> values[i]]

(* A run of n fields of one type.                                            *)
LEMMA ManyReads ==
  ASSUME NEW r, Reader(r), NEW file, Len(file) \in Nat, NEW table, NEW type, NEW n \in Nat,
         NEW name, NEW values, Run(values, n), table[name] = values,
         NEW s, Run(s, n), \A i \in 1 .. n : s[i] = F(type, values[i])
  PROVE  Reads(r, TakeMany(r, file, type, n, name), file, s, {name}, table)
<1> DEFINE news == [x \in {name} |-> table[x]]
           t == TakeMany(r, file, type, n, name)
<1>1. DOMAIN s = 1 .. n
  BY DEF Run
<1>2. DOMAIN news = {name} /\ (\A x \in {name} : news[x] = table[x])
      /\ news[name] = values
  OBVIOUS
<1> HIDE DEF news
<1>3. Len(s) = n
  BY <1>1, Mapped DEF Run
<1> SUFFICES ASSUME r.ok => Ahead(file, r.at, s)
             PROVE  Fills(r, t, file, Len(s), {name}, table)
  BY DEF Reads
<1>4. Advances(r, t, file, n, news)
  BY <1>1, <1>2, <1>3, TakeManyAdvances DEF Run
<1> HIDE DEF t
<1> QED
  BY <1>2, <1>3, <1>4, AdvanceFills

(* What an input record has, by the parts of it that are read.               *)
RecordNames == {"scalars", "schema", "types", "profiles", "stages", "schedule", "boundary",
                "free", "coils", "embedded", "makegrid", "lasym", "vectors"}

Recorded(p, layout) ==
  {"scalars", "schema", "profiles", "stages", "schedule", "boundary"}
  \cup (IF layout.types THEN {"types"} ELSE {})
  \cup (IF layout.free >= 1 THEN {"free"} ELSE {})
  \cup (IF layout.free >= 2 THEN {"coils"} ELSE {})
  \cup (IF layout.free >= 3 THEN {"embedded"} ELSE {})
  \cup (IF layout.free >= 3 /\ p.embedded THEN {"makegrid"} ELSE {})
  \cup (IF layout.asymmetric THEN {"lasym", "vectors"} ELSE {})

HoldsRecord(table, p) ==
  /\ \A x \in {"scalars", "schema", "types", "profiles", "boundary", "free", "coils",
               "makegrid", "vectors"} : table[x] = x
  /\ table["stages"] = p.stages
  /\ table["schedule"] = [g \in 1 .. p.stages |-> <<"stage", g>>]
  /\ table["embedded"] = IF p.embedded THEN 1 ELSE 0
  /\ table["lasym"] = IF p.lasym THEN 1 ELSE 0

TypedLayout(layout) ==
  /\ layout.record = "typed" /\ layout.types \in BOOLEAN /\ layout.free \in 0 .. 3
  /\ layout.asymmetric \in BOOLEAN

(* read_input_params() against write_input_params(): told by the version     *)
(* what to expect, it reads the record field by field, whatever the number   *)
(* of stages.                                                                *)
LEMMA RecordReads ==
  ASSUME NEW r, Reader(r), NEW file, Len(file) \in Nat, r.ok => r.at <= Len(file),
         r.ok => DOMAIN r.got \cap RecordNames = {},
         NEW p, p.stages \in Nat, p.embedded \in BOOLEAN, p.lasym \in BOOLEAN,
         NEW layout, TypedLayout(layout),
         NEW flags, flags.types = layout.types, flags.free = layout.free,
         flags.asymmetric = layout.asymmetric,
         NEW table, HoldsRecord(table, p)
  PROVE  Reads(r, ReadRecord(r, file, flags), file, InputRecord(p, layout),
               Recorded(p, layout), table)
         /\ IsSequence(InputRecord(p, layout))
<1> DEFINE a == Take(r, file, <<<<"scalars", "scalars">>, <<"schema", "schema">>>>)
           b == TakeIf(flags.types, a, file, <<<<"types", "types">>>>)
           c == Take(b, file, <<<<"profiles", "profiles">>, <<"count", "stages">>>>)
           d == TakeMany(c, file, "stage", Got(c, "stages", -1), "schedule")
           e == Take(d, file, <<<<"boundary", "boundary">>>>)
           f == TakeIf(flags.free >= 1, e, file, <<<<"free", "free">>>>)
           g == TakeIf(flags.free >= 2, f, file, <<<<"coils", "coils">>>>)
           h == TakeIf(flags.free >= 3, g, file, <<<<"count", "embedded">>>>)
           i == TakeIf(Got(h, "embedded", 0) # 0, h, file, <<<<"makegrid", "makegrid">>>>)
           j == TakeIf(flags.asymmetric, i, file, <<<<"count", "lasym">>>>)
           k == Demand(j, Got(j, "lasym", 0) \in {0, 1})
           l == TakeIf(flags.asymmetric, k, file, <<<<"vectors", "vectors">>>>)
           A == <<F("scalars", "scalars"), F("schema", "schema")>>
           B == Optional(layout.types, <<F("types", "types")>>)
           C == <<F("profiles", "profiles"), F("count", p.stages)>>
           D == [s \in 1 .. p.stages |-> F("stage", <<"stage", s>>)]
           E == <<F("boundary", "boundary")>>
           G == Optional(layout.free >= 1, <<F("free", "free")>>)
           H == Optional(layout.free >= 2, <<F("coils", "coils")>>)
           I1 == <<F("count", IF p.embedded THEN 1 ELSE 0)>>
           I2 == Optional(p.embedded, <<F("makegrid", "makegrid")>>)
           I == Optional(layout.free >= 3, I1 \o I2)
           J1 == <<F("count", IF p.lasym THEN 1 ELSE 0)>>
           J2 == <<F("vectors", "vectors")>>
           J == Optional(layout.asymmetric, J1 \o J2)
           NA == {"scalars", "schema"}
           NB == NA \cup (IF layout.types THEN {"types"} ELSE {})
           NC == NB \cup {"profiles", "stages"}
           ND == NC \cup {"schedule"}
           NE == ND \cup {"boundary"}
           NG == NE \cup (IF layout.free >= 1 THEN {"free"} ELSE {})
           NH == NG \cup (IF layout.free >= 2 THEN {"coils"} ELSE {})
           NI2 == IF p.embedded THEN {"makegrid"} ELSE {}
           NI == NH \cup (IF layout.free >= 3 THEN {"embedded"} \cup NI2 ELSE {})
           NJ == NI \cup (IF layout.asymmetric THEN {"lasym"} \cup {"vectors"} ELSE {})
<1>1. ReadRecord(r, file, flags) = l
  BY DEF ReadRecord
<1>2. InputRecord(p, layout) = (((((((A \o B) \o C) \o D) \o E) \o G) \o H) \o I) \o J
  <2>1. J1 \o J2 = <<F("count", IF p.lasym THEN 1 ELSE 0), F("vectors", "vectors")>>
    BY Pairs
  <2>2. J = Optional(layout.asymmetric,
              <<F("count", IF p.lasym THEN 1 ELSE 0), F("vectors", "vectors")>>)
    BY <2>1
  <2> HIDE DEF J
  <2> QED
    BY <2>2 DEF TypedLayout, InputRecord
<1>3. Recorded(p, layout) = NJ
  BY DEF Recorded, TypedLayout
<1>4. /\ IsSequence(A) /\ IsSequence(B) /\ IsSequence(C) /\ IsSequence(D) /\ IsSequence(E)
      /\ IsSequence(G) /\ IsSequence(H) /\ IsSequence(I1) /\ IsSequence(I2)
      /\ IsSequence(J1) /\ IsSequence(J2)
  <2>1. IsSequence(D)
    BY Mapped
  <2> QED
    BY <2>1, ShortSequences, OptionalSequence
<1>5. IsSequence(I1 \o I2) /\ IsSequence(J1 \o J2) /\ IsSequence(I) /\ IsSequence(J)
  BY <1>4, Joined, OptionalSequence
<1>6. /\ IsSequence(A \o B) /\ IsSequence((A \o B) \o C)
      /\ IsSequence(((A \o B) \o C) \o D) /\ IsSequence((((A \o B) \o C) \o D) \o E)
      /\ IsSequence(((((A \o B) \o C) \o D) \o E) \o G)
      /\ IsSequence((((((A \o B) \o C) \o D) \o E) \o G) \o H)
      /\ IsSequence(((((((A \o B) \o C) \o D) \o E) \o G) \o H) \o I)
      /\ IsSequence((((((((A \o B) \o C) \o D) \o E) \o G) \o H) \o I) \o J)
  <2> HIDE DEF A, B, C, D, E, G, H, I, J
  <2> QED
    BY <1>4, <1>5, Joined
<1> HIDE DEF a, b, c, d, e, f, g, h, i, j, k, l, A, B, C, D, E, G, H, I1, I2, I, J1, J2, J,
             NA, NB, NC, ND, NE, NG, NH, NI2, NI, NJ
<1>7. \A m, names : Known(r, m, file, names, table) =>
                      Reader(m) /\ (m.ok => m.at <= Len(file))
  BY DEF Known
<1>8. Reads(r, a, file, A, NA, table)
  BY TwoReads DEF a, A, NA, HoldsRecord
<1>9. Reads(r, b, file, A \o B, NB, table)
  <2>1. ASSUME Known(r, a, file, NA, table)
        PROVE  Reads(a, b, file, B, IF layout.types THEN {"types"} ELSE {}, table)
    <3>1. Reader(a) /\ (a.ok => a.at <= Len(file))
      BY <1>7, <2>1
    <3>2. layout.types => Reads(a, b, file, <<F("types", "types")>>, {"types"}, table)
      BY <3>1, OneReads DEF b, TakeIf, HoldsRecord
    <3>3. ~(layout.types) => b = a
      BY DEF b, TakeIf
    <3>4. (layout.types) \in BOOLEAN
      BY DEF TypedLayout
    <3> QED
      BY <3>1, <3>2, <3>3, <3>4, May DEF B
  <2>2. IsSequence(A) /\ IsSequence(B)
    BY <1>4, <1>5, <1>6
  <2> QED
    BY <1>8, <2>1, <2>2, Then DEF NB
<1>10. Reads(r, c, file, (A \o B) \o C, NC, table)
  <2>1. ASSUME Known(r, b, file, NB, table)
        PROVE  Reads(b, c, file, C, {"profiles", "stages"}, table)
    <3>1. Reader(b)
      BY <1>7, <2>1
    <3> QED
      BY <3>1, TwoReads DEF c, C, HoldsRecord
  <2>2. IsSequence((A \o B)) /\ IsSequence(C)
    BY <1>4, <1>5, <1>6
  <2> QED
    BY <1>9, <2>1, <2>2, Then DEF NC
<1>11. Reads(r, d, file, ((A \o B) \o C) \o D, ND, table)
  <2>1. ASSUME Known(r, c, file, NC, table)
        PROVE  Reads(c, d, file, D, {"schedule"}, table)
    <3>1. Reader(c) /\ (c.ok => c.got["stages"] = p.stages /\ "stages" \in DOMAIN c.got)
      BY <2>1 DEF Known, NC, HoldsRecord
    <3> DEFINE values == [s \in 1 .. p.stages |-> <<"stage", s>>]
    <3>2. CASE c.ok
      <4>1. d = TakeMany(c, file, "stage", p.stages, "schedule")
        BY <3>1, <3>2 DEF d, Got
      <4>2. Run(D, p.stages) /\ \A s \in 1 .. p.stages : D[s] = F("stage", values[s])
        BY DEF D, Run
      <4>3. Run(values, p.stages) /\ table["schedule"] = values
        BY DEF HoldsRecord, Run
      <4> HIDE DEF values
      <4> QED
        BY <3>1, <4>1, <4>2, <4>3, ManyReads
    <3>3. CASE ~c.ok
      <4>1. Reader(d) /\ ~d.ok
        BY <3>1, <3>3, FailsOn DEF d
      <4> QED
        BY <3>3, <4>1 DEF Reads, Fills
    <3> QED
      BY <3>2, <3>3
  <2>2. IsSequence(((A \o B) \o C)) /\ IsSequence(D)
    BY <1>4, <1>5, <1>6
  <2> QED
    BY <1>10, <2>1, <2>2, Then DEF ND
<1>12. Reads(r, e, file, (((A \o B) \o C) \o D) \o E, NE, table)
  <2>1. ASSUME Known(r, d, file, ND, table)
        PROVE  Reads(d, e, file, E, {"boundary"}, table)
    <3>1. Reader(d)
      BY <1>7, <2>1
    <3> QED
      BY <3>1, OneReads DEF e, E, HoldsRecord
  <2>2. IsSequence((((A \o B) \o C) \o D)) /\ IsSequence(E)
    BY <1>4, <1>5, <1>6
  <2> QED
    BY <1>11, <2>1, <2>2, Then DEF NE
<1>13. Reads(r, f, file, ((((A \o B) \o C) \o D) \o E) \o G, NG, table)
  <2>1. ASSUME Known(r, e, file, NE, table)
        PROVE  Reads(e, f, file, G, IF layout.free >= 1 THEN {"free"} ELSE {}, table)
    <3>1. Reader(e) /\ (e.ok => e.at <= Len(file))
      BY <1>7, <2>1
    <3>2. layout.free >= 1 => Reads(e, f, file, <<F("free", "free")>>, {"free"}, table)
      BY <3>1, OneReads DEF f, TakeIf, HoldsRecord
    <3>3. ~(layout.free >= 1) => f = e
      BY DEF f, TakeIf
    <3>4. (layout.free >= 1) \in BOOLEAN
      BY DEF TypedLayout
    <3> QED
      BY <3>1, <3>2, <3>3, <3>4, May DEF G
  <2>2. IsSequence(((((A \o B) \o C) \o D) \o E)) /\ IsSequence(G)
    BY <1>4, <1>5, <1>6
  <2> QED
    BY <1>12, <2>1, <2>2, Then DEF NG
<1>14. Reads(r, g, file, (((((A \o B) \o C) \o D) \o E) \o G) \o H, NH, table)
  <2>1. ASSUME Known(r, f, file, NG, table)
        PROVE  Reads(f, g, file, H, IF layout.free >= 2 THEN {"coils"} ELSE {}, table)
    <3>1. Reader(f) /\ (f.ok => f.at <= Len(file))
      BY <1>7, <2>1
    <3>2. layout.free >= 2 => Reads(f, g, file, <<F("coils", "coils")>>, {"coils"}, table)
      BY <3>1, OneReads DEF g, TakeIf, HoldsRecord
    <3>3. ~(layout.free >= 2) => g = f
      BY DEF g, TakeIf
    <3>4. (layout.free >= 2) \in BOOLEAN
      BY DEF TypedLayout
    <3> QED
      BY <3>1, <3>2, <3>3, <3>4, May DEF H
  <2>2. IsSequence((((((A \o B) \o C) \o D) \o E) \o G)) /\ IsSequence(H)
    BY <1>4, <1>5, <1>6
  <2> QED
    BY <1>13, <2>1, <2>2, Then DEF NH
<1>15. Reads(r, i, file, ((((((A \o B) \o C) \o D) \o E) \o G) \o H) \o I, NI, table)
  <2>1. ASSUME Known(r, g, file, NH, table)
        PROVE  Reads(g, i, file, I, IF layout.free >= 3 THEN {"embedded"} \cup NI2 ELSE {}, table)
    <3>1. Reader(g) /\ (g.ok => g.at <= Len(file))
      BY <1>7, <2>1
    <3>2. g.ok => "embedded" \notin DOMAIN g.got
      <4>1. "embedded" \in RecordNames /\ "embedded" \notin NH
        BY DEF RecordNames, NA, NB, NC, ND, NE, NG, NH
      <4> QED
        BY <2>1, <4>1 DEF Known
    <3>3. ASSUME layout.free >= 3
          PROVE  Reads(g, i, file, I1 \o I2, {"embedded"} \cup NI2, table)
      <4>1. h = Take(g, file, <<<<"count", "embedded">>>>)
        BY <3>3 DEF h, TakeIf
      <4>2. Reads(g, h, file, I1, {"embedded"}, table)
        BY <3>1, <4>1, OneReads DEF I1, HoldsRecord
      <4>3. ASSUME Known(g, h, file, {"embedded"}, table)
            PROVE  Reads(h, i, file, I2, NI2, table)
        <5>1. Reader(h) /\ (h.ok => h.at <= Len(file))
          BY <4>3 DEF Known
        <5>2. CASE h.ok
          <6>1. Got(h, "embedded", 0) = IF p.embedded THEN 1 ELSE 0
            BY <4>3, <5>2 DEF Known, Got, HoldsRecord
          <6>2. i = TakeIf(p.embedded, h, file, <<<<"makegrid", "makegrid">>>>)
            BY <6>1 DEF i
          <6>3. p.embedded => Reads(h, i, file, <<F("makegrid", "makegrid")>>,
                                    {"makegrid"}, table)
            BY <5>1, <6>2, OneReads DEF TakeIf, HoldsRecord
          <6>4. ~p.embedded => i = h
            BY <6>2 DEF TakeIf
          <6> QED
            BY <5>1, <6>3, <6>4, May DEF I2, NI2
        <5>3. CASE ~h.ok
          <6>1. Reader(i) /\ ~i.ok
            <7>1. (Got(h, "embedded", 0) # 0) \in BOOLEAN
              OBVIOUS
            <7> QED
              BY <5>1, <5>3, <7>1, FailsOn DEF i
          <6> QED
            BY <5>3, <6>1 DEF Reads, Fills
        <5> QED
          BY <5>2, <5>3
      <4> QED
        BY <1>4, <3>1, <4>2, <4>3, Then
    <3>4. ASSUME ~(layout.free >= 3), g.ok
          PROVE  i = g
      <4>1. h = g
        BY <3>4 DEF h, TakeIf
      <4>2. Got(h, "embedded", 0) = 0
        BY <3>2, <3>4, <4>1 DEF Got
      <4> QED
        BY <4>1, <4>2 DEF i, TakeIf
    <3>5. CASE layout.free >= 3 \/ g.ok
      <4>1. (layout.free >= 3) \in BOOLEAN
        BY DEF TypedLayout
      <4> QED
        BY <1>5, <3>1, <3>3, <3>4, <3>5, <4>1, May DEF I
    <3>6. CASE ~(layout.free >= 3) /\ ~g.ok
      <4>1. h = g
        BY <3>6 DEF h, TakeIf
      <4>2. Reader(i) /\ ~i.ok
        <5>1. (Got(h, "embedded", 0) # 0) \in BOOLEAN
          OBVIOUS
        <5> QED
          BY <3>1, <3>6, <4>1, <5>1, FailsOn DEF i
      <4> QED
        BY <3>6, <4>2 DEF Reads, Fills
    <3> QED
      BY <3>5, <3>6
  <2>2. IsSequence(((((((A \o B) \o C) \o D) \o E) \o G) \o H)) /\ IsSequence(I)
    BY <1>4, <1>5, <1>6
  <2> QED
    BY <1>14, <2>1, <2>2, Then DEF NI
<1>16. Reads(r, l, file, (((((((A \o B) \o C) \o D) \o E) \o G) \o H) \o I) \o J, NJ, table)
  <2>1. ASSUME Known(r, i, file, NI, table)
        PROVE  Reads(i, l, file, J, IF layout.asymmetric THEN {"lasym"} \cup {"vectors"} ELSE {}, table)
    <3>1. Reader(i) /\ (i.ok => i.at <= Len(file))
      BY <1>7, <2>1
    <3>2. i.ok => "lasym" \notin DOMAIN i.got
      <4>1. "lasym" \in RecordNames /\ "lasym" \notin NI
        BY DEF RecordNames, NA, NB, NC, ND, NE, NG, NH, NI2, NI
      <4> QED
        BY <2>1, <4>1 DEF Known
    <3> DEFINE ok == Got(j, "lasym", 0) \in {0, 1}
    <3>3. ASSUME layout.asymmetric
          PROVE  Reads(i, l, file, J1 \o J2, {"lasym"} \cup {"vectors"}, table)
      <4>1. j = Take(i, file, <<<<"count", "lasym">>>>)
        BY <3>3 DEF j, TakeIf
      <4>2. Reads(i, j, file, J1, {"lasym"}, table)
        BY <3>1, <4>1, OneReads DEF J1, HoldsRecord
      <4>3. ASSUME Known(i, j, file, {"lasym"}, table)
            PROVE  Reads(j, l, file, J2, {"vectors"}, table)
        <5>1. j.ok => ok
          BY <4>3 DEF Known, Got, HoldsRecord
        <5>2. Reader(j)
          BY <4>3 DEF Known
        <5>3. k = j
          <6>1. ok \in BOOLEAN
            OBVIOUS
          <6> QED
            BY <5>1, <5>2, <6>1, DemandHolds DEF k
        <5>4. l = Take(j, file, <<<<"vectors", "vectors">>>>)
          BY <3>3, <5>3 DEF l, TakeIf
        <5> QED
          BY <5>2, <5>4, OneReads DEF J2, HoldsRecord
      <4> QED
        BY <1>4, <3>1, <4>2, <4>3, Then
    <3>4. ASSUME ~layout.asymmetric
          PROVE  l = i
      <4>1. j = i
        BY <3>4 DEF j, TakeIf
      <4>2. j.ok => ok
        BY <3>2, <4>1 DEF Got
      <4>3. ok \in BOOLEAN
        OBVIOUS
      <4>4. k = i
        BY <3>1, <4>1, <4>2, <4>3, DemandHolds DEF k
      <4> QED
        BY <3>4, <4>4 DEF l, TakeIf
    <3>5. layout.asymmetric \in BOOLEAN
      BY DEF TypedLayout
    <3> QED
      BY <3>1, <3>3, <3>4, <3>5, May DEF J
  <2>2. IsSequence((((((((A \o B) \o C) \o D) \o E) \o G) \o H) \o I)) /\ IsSequence(J)
    BY <1>4, <1>5, <1>6
  <2> QED
    BY <1>15, <2>1, <2>2, Then DEF NJ
<1> QED
  BY <1>1, <1>2, <1>3, <1>6, <1>16

-----------------------------------------------------------------------------
(* Layouts.                                                                  *)

(* What the version of a checkpoint says of it.                              *)
CheckpointWellFormed(layout) ==
  LET v == layout.version
  IN  /\ v \in 1 .. 8 /\ layout.count \in BOOLEAN /\ (layout.count <=> v >= 7)
      /\ layout.record = IF v = 1 THEN "none" ELSE IF v = 7 THEN "json" ELSE "typed"
      /\ layout.record = "typed" =>
           /\ layout.types \in BOOLEAN /\ (layout.types <=> v = 3 \/ v >= 6)
           /\ layout.free = IF v >= 6 THEN 3 ELSE IF v >= 4 THEN v - 2 ELSE 0
           /\ layout.asymmetric \in BOOLEAN /\ (layout.asymmetric <=> v >= 8)

BinaryWellFormed(layout) ==
  LET v == layout.version
  IN  /\ v \in 1 .. 10 /\ layout.count \in BOOLEAN /\ (layout.count <=> v >= 9)
      /\ layout.fields \in BOOLEAN /\ (layout.fields <=> v >= 8)
      /\ layout.policy \in BOOLEAN /\ (layout.policy <=> v >= 2)
      /\ layout.record = IF v <= 2 THEN "none" ELSE IF v = 9 THEN "json" ELSE "typed"
      /\ layout.record = "typed" =>
           /\ layout.types \in BOOLEAN /\ (layout.types <=> v = 4 \/ v >= 7)
           /\ layout.free = IF v >= 7 THEN 3 ELSE IF v >= 5 THEN v - 3 ELSE 0
           /\ layout.asymmetric \in BOOLEAN /\ (layout.asymmetric <=> v >= 10)

(* A reader is told by the version what the writer has put there.            *)
LEMMA FlagsOfLayout ==
  ASSUME NEW layout, layout.record = "typed"
  PROVE  /\ CheckpointWellFormed(layout) =>
              LET flags == CheckpointFlags(layout.version)
              IN  /\ TypedLayout(layout) /\ flags.types = layout.types
                  /\ flags.free = layout.free /\ flags.asymmetric = layout.asymmetric
         /\ BinaryWellFormed(layout) =>
              LET flags == BinaryFlags(layout.version)
              IN  /\ TypedLayout(layout) /\ flags.types = layout.types
                  /\ flags.free = layout.free /\ flags.asymmetric = layout.asymmetric
<1> DEFINE v == layout.version
           types == v = 3 \/ v >= 6
           asymmetric == v >= 8
           free == IF v >= 6 THEN 3 ELSE IF v >= 4 THEN v - 2 ELSE 0
           bTypes == v = 4 \/ v >= 7
           bAsymmetric == v >= 10
           bFree == IF v >= 7 THEN 3 ELSE IF v >= 5 THEN v - 3 ELSE 0
<1>1. /\ CheckpointFlags(v) = [types |-> types, free |-> free, asymmetric |-> asymmetric]
      /\ BinaryFlags(v) = [types |-> bTypes, free |-> bFree, asymmetric |-> bAsymmetric]
  BY DEF CheckpointFlags, BinaryFlags
<1>2. types \in BOOLEAN /\ asymmetric \in BOOLEAN /\ bTypes \in BOOLEAN
      /\ bAsymmetric \in BOOLEAN
  OBVIOUS
<1>3. CheckpointWellFormed(layout) =>
        /\ layout.types \in BOOLEAN /\ (layout.types <=> types) /\ layout.free = free
        /\ layout.asymmetric \in BOOLEAN /\ (layout.asymmetric <=> asymmetric)
        /\ TypedLayout(layout)
  BY DEF CheckpointWellFormed, TypedLayout
<1>4. BinaryWellFormed(layout) =>
        /\ layout.types \in BOOLEAN /\ (layout.types <=> bTypes) /\ layout.free = bFree
        /\ layout.asymmetric \in BOOLEAN /\ (layout.asymmetric <=> bAsymmetric)
        /\ TypedLayout(layout)
  BY DEF BinaryWellFormed, TypedLayout
<1> HIDE DEF types, asymmetric, free, bTypes, bAsymmetric, bFree
<1>5. CheckpointWellFormed(layout) =>
        layout.types = types /\ layout.free = free /\ layout.asymmetric = asymmetric
  BY <1>2, <1>3
<1>6. BinaryWellFormed(layout) =>
        layout.types = bTypes /\ layout.free = bFree /\ layout.asymmetric = bAsymmetric
  BY <1>2, <1>4
<1> QED
  BY <1>1, <1>3, <1>4, <1>5, <1>6

(* What a record's part of a layout holds.                                   *)
Holds(rest, record, types, free, asymmetric) ==
  /\ DOMAIN rest = {"record", "types", "free", "asymmetric"}
  /\ rest["record"] = record /\ rest["free"] = free
  /\ rest["types"] \in BOOLEAN /\ (rest["types"] <=> types)
  /\ rest["asymmetric"] \in BOOLEAN /\ (rest["asymmetric"] <=> asymmetric)

(* The layouts of this release and of earlier ones keep those rules.         *)
LEMMA CheckpointLayoutIs ==
  ASSUME NEW lasym \in BOOLEAN
  PROVE  LET layout == CheckpointLayout(lasym)
         IN  CheckpointWellFormed(layout) /\ layout.version = IF lasym THEN 8 ELSE 6
<1> DEFINE own == [version |-> IF lasym THEN 8 ELSE 6, count |-> lasym]
           rest == FullRecord(lasym)
           layout == CheckpointLayout(lasym)
<1>1. /\ DOMAIN own = {"version", "count"} /\ own["version"] = (IF lasym THEN 8 ELSE 6)
      /\ own["count"] \in BOOLEAN /\ (own["count"] <=> lasym)
  OBVIOUS
<1>2. layout = Over(own, rest)
  BY DEF CheckpointLayout
<1>3. Holds(rest, "typed", TRUE, 3, lasym)
  BY DEF FullRecord, Holds
<1> HIDE DEF own, rest, layout
<1>4. /\ \A x \in DOMAIN own : Over(own, rest)[x] = own[x]
      /\ \A x \in DOMAIN rest \ DOMAIN own : Over(own, rest)[x] = rest[x]
  BY DEF Over
<1>5. /\ layout.version = own["version"] /\ layout.count = own["count"]
      /\ layout.record = rest["record"] /\ layout.types = rest["types"]
      /\ layout.free = rest["free"] /\ layout.asymmetric = rest["asymmetric"]
  BY <1>1, <1>2, <1>3, <1>4 DEF Holds
<1>6. CheckpointWellFormed(layout)
  BY <1>1, <1>3, <1>5 DEF CheckpointWellFormed, Holds
<1> QED
  BY <1>1, <1>5, <1>6 DEF layout

LEMMA BinaryLayoutIs ==
  ASSUME NEW lasym \in BOOLEAN
  PROVE  LET layout == BinaryLayout(lasym)
         IN  BinaryWellFormed(layout) /\ layout.version = IF lasym THEN 10 ELSE 8
<1> DEFINE own == [version |-> IF lasym THEN 10 ELSE 8, count |-> lasym,
                   fields |-> TRUE, policy |-> TRUE]
           rest == FullRecord(lasym)
           layout == BinaryLayout(lasym)
<1>1. /\ DOMAIN own = {"version", "count", "fields", "policy"}
      /\ own["version"] = (IF lasym THEN 10 ELSE 8)
      /\ own["count"] \in BOOLEAN /\ (own["count"] <=> lasym)
      /\ own["fields"] \in BOOLEAN /\ (own["fields"] <=> TRUE)
      /\ own["policy"] \in BOOLEAN /\ (own["policy"] <=> TRUE)
  OBVIOUS
<1>2. layout = Over(own, rest)
  BY DEF BinaryLayout
<1>3. Holds(rest, "typed", TRUE, 3, lasym)
  BY DEF FullRecord, Holds
<1> HIDE DEF own, rest, layout
<1>4. /\ \A x \in DOMAIN own : Over(own, rest)[x] = own[x]
      /\ \A x \in DOMAIN rest \ DOMAIN own : Over(own, rest)[x] = rest[x]
  BY DEF Over
<1>5. /\ layout.version = own["version"] /\ layout.count = own["count"]
      /\ layout.fields = own["fields"] /\ layout.policy = own["policy"]
      /\ layout.record = rest["record"] /\ layout.types = rest["types"]
      /\ layout.free = rest["free"] /\ layout.asymmetric = rest["asymmetric"]
  BY <1>1, <1>2, <1>3, <1>4 DEF Holds
<1>6. BinaryWellFormed(layout)
  BY <1>1, <1>3, <1>5 DEF BinaryWellFormed, Holds
<1> QED
  BY <1>1, <1>5, <1>6 DEF layout

LEMMA LegacyCheckpointIs ==
  ASSUME NEW v \in {1, 2, 3, 4, 5, 7}
  PROVE  LET layout == LegacyCheckpoints[v]
         IN  CheckpointWellFormed(layout) /\ layout.version = v
<1> DEFINE own == [version |-> v, count |-> v = 7]
           rest == CASE v = 1 -> LegacyRecord("none", FALSE, 0)
                     [] v = 2 -> LegacyRecord("typed", FALSE, 0)
                     [] v = 3 -> LegacyRecord("typed", TRUE, 0)
                     [] v = 4 -> LegacyRecord("typed", FALSE, 2)
                     [] v = 5 -> LegacyRecord("typed", FALSE, 3)
                     [] v = 7 -> LegacyRecord("json", FALSE, 0)
           layout == LegacyCheckpoints[v]
<1>1. /\ DOMAIN own = {"version", "count"} /\ own["version"] = v
      /\ own["count"] \in BOOLEAN /\ (own["count"] <=> v = 7)
  OBVIOUS
<1>2. layout = Over(own, rest)
  BY DEF LegacyCheckpoints
<1>3. /\ v = 1 => Holds(rest, "none", FALSE, 0, FALSE)
      /\ v = 2 => Holds(rest, "typed", FALSE, 0, FALSE)
      /\ v = 3 => Holds(rest, "typed", TRUE, 0, FALSE)
      /\ v = 4 => Holds(rest, "typed", FALSE, 2, FALSE)
      /\ v = 5 => Holds(rest, "typed", FALSE, 3, FALSE)
      /\ v = 7 => Holds(rest, "json", FALSE, 0, FALSE)
  <2>1. ASSUME v = 1
        PROVE  Holds(rest, "none", FALSE, 0, FALSE)
    <3>1. rest = LegacyRecord("none", FALSE, 0)
      BY <2>1
    <3> HIDE DEF rest
    <3> QED
      BY <3>1 DEF LegacyRecord, Holds
  <2>2. ASSUME v = 2
        PROVE  Holds(rest, "typed", FALSE, 0, FALSE)
    <3>1. rest = LegacyRecord("typed", FALSE, 0)
      BY <2>2
    <3> HIDE DEF rest
    <3> QED
      BY <3>1 DEF LegacyRecord, Holds
  <2>3. ASSUME v = 3
        PROVE  Holds(rest, "typed", TRUE, 0, FALSE)
    <3>1. rest = LegacyRecord("typed", TRUE, 0)
      BY <2>3
    <3> HIDE DEF rest
    <3> QED
      BY <3>1 DEF LegacyRecord, Holds
  <2>4. ASSUME v = 4
        PROVE  Holds(rest, "typed", FALSE, 2, FALSE)
    <3>1. rest = LegacyRecord("typed", FALSE, 2)
      BY <2>4
    <3> HIDE DEF rest
    <3> QED
      BY <3>1 DEF LegacyRecord, Holds
  <2>5. ASSUME v = 5
        PROVE  Holds(rest, "typed", FALSE, 3, FALSE)
    <3>1. rest = LegacyRecord("typed", FALSE, 3)
      BY <2>5
    <3> HIDE DEF rest
    <3> QED
      BY <3>1 DEF LegacyRecord, Holds
  <2>6. ASSUME v = 7
        PROVE  Holds(rest, "json", FALSE, 0, FALSE)
    <3>1. rest = LegacyRecord("json", FALSE, 0)
      BY <2>6
    <3> HIDE DEF rest
    <3> QED
      BY <3>1 DEF LegacyRecord, Holds
  <2> QED
    BY <2>1, <2>2, <2>3, <2>4, <2>5, <2>6
<1> HIDE DEF own, rest, layout
<1>4. /\ \A x \in DOMAIN own : Over(own, rest)[x] = own[x]
      /\ \A x \in DOMAIN rest \ DOMAIN own : Over(own, rest)[x] = rest[x]
  BY DEF Over
<1>5. DOMAIN rest = {"record", "types", "free", "asymmetric"}
  BY <1>3 DEF Holds
<1>6. /\ layout.version = own["version"] /\ layout.count = own["count"]
      /\ layout.record = rest["record"] /\ layout.types = rest["types"]
      /\ layout.free = rest["free"] /\ layout.asymmetric = rest["asymmetric"]
  BY <1>1, <1>2, <1>4, <1>5
<1>7. CheckpointWellFormed(layout)
  <2>1. CASE v = 1
    BY <1>1, <1>3, <1>6, <2>1 DEF CheckpointWellFormed, Holds
  <2>2. CASE v = 2
    BY <1>1, <1>3, <1>6, <2>2 DEF CheckpointWellFormed, Holds
  <2>3. CASE v = 3
    BY <1>1, <1>3, <1>6, <2>3 DEF CheckpointWellFormed, Holds
  <2>4. CASE v = 4
    BY <1>1, <1>3, <1>6, <2>4 DEF CheckpointWellFormed, Holds
  <2>5. CASE v = 5
    BY <1>1, <1>3, <1>6, <2>5 DEF CheckpointWellFormed, Holds
  <2>6. CASE v = 7
    BY <1>1, <1>3, <1>6, <2>6 DEF CheckpointWellFormed, Holds
  <2> QED
    BY <2>1, <2>2, <2>3, <2>4, <2>5, <2>6
<1> QED
  BY <1>1, <1>6, <1>7 DEF layout

LEMMA LegacyBinaryIs ==
  ASSUME NEW v \in {1, 2, 3, 4, 5, 6, 7, 9}
  PROVE  LET layout == LegacyBinaries[v]
         IN  BinaryWellFormed(layout) /\ layout.version = v
<1> DEFINE count == v = 9
           fields == v >= 8
           policy == v >= 2
           own == [version |-> v, count |-> count, fields |-> fields, policy |-> policy]
           rest == CASE v \in {1, 2} -> LegacyRecord("none", FALSE, 0)
                     [] v = 3 -> LegacyRecord("typed", FALSE, 0)
                     [] v = 4 -> LegacyRecord("typed", TRUE, 0)
                     [] v = 5 -> LegacyRecord("typed", FALSE, 2)
                     [] v = 6 -> LegacyRecord("typed", FALSE, 3)
                     [] v = 7 -> LegacyRecord("typed", TRUE, 3)
                     [] v = 9 -> LegacyRecord("json", FALSE, 0)
           layout == LegacyBinaries[v]
<1>1. /\ DOMAIN own = {"version", "count", "fields", "policy"}
      /\ own["version"] = v
      /\ own["count"] \in BOOLEAN /\ (own["count"] <=> v = 9)
      /\ own["fields"] \in BOOLEAN /\ (own["fields"] <=> v >= 8)
      /\ own["policy"] \in BOOLEAN /\ (own["policy"] <=> v >= 2)
  <2>1. count \in BOOLEAN /\ fields \in BOOLEAN /\ policy \in BOOLEAN
    OBVIOUS
  <2> HIDE DEF count, fields, policy
  <2>2. /\ DOMAIN own = {"version", "count", "fields", "policy"}
        /\ own["version"] = v /\ own["count"] = count
        /\ own["fields"] = fields /\ own["policy"] = policy
    OBVIOUS
  <2> HIDE DEF own
  <2> QED
    BY <2>1, <2>2 DEF count, fields, policy
<1>2. layout = Over(own, rest)
  BY DEF LegacyBinaries
<1>3. /\ v \in {1, 2} => Holds(rest, "none", FALSE, 0, FALSE)
      /\ v = 3 => Holds(rest, "typed", FALSE, 0, FALSE)
      /\ v = 4 => Holds(rest, "typed", TRUE, 0, FALSE)
      /\ v = 5 => Holds(rest, "typed", FALSE, 2, FALSE)
      /\ v = 6 => Holds(rest, "typed", FALSE, 3, FALSE)
      /\ v = 7 => Holds(rest, "typed", TRUE, 3, FALSE)
      /\ v = 9 => Holds(rest, "json", FALSE, 0, FALSE)
  <2>1. ASSUME v \in {1, 2}
        PROVE  Holds(rest, "none", FALSE, 0, FALSE)
    <3>1. rest = LegacyRecord("none", FALSE, 0)
      <4>1. CASE v = 1
        BY <4>1
      <4>2. CASE v = 2
        BY <4>2
      <4> QED
        BY <2>1, <4>1, <4>2
    <3> HIDE DEF rest
    <3> QED
      BY <3>1 DEF LegacyRecord, Holds
  <2>2. ASSUME v = 3
        PROVE  Holds(rest, "typed", FALSE, 0, FALSE)
    <3>1. rest = LegacyRecord("typed", FALSE, 0)
      BY <2>2
    <3> HIDE DEF rest
    <3> QED
      BY <3>1 DEF LegacyRecord, Holds
  <2>3. ASSUME v = 4
        PROVE  Holds(rest, "typed", TRUE, 0, FALSE)
    <3>1. rest = LegacyRecord("typed", TRUE, 0)
      BY <2>3
    <3> HIDE DEF rest
    <3> QED
      BY <3>1 DEF LegacyRecord, Holds
  <2>4. ASSUME v = 5
        PROVE  Holds(rest, "typed", FALSE, 2, FALSE)
    <3>1. rest = LegacyRecord("typed", FALSE, 2)
      BY <2>4
    <3> HIDE DEF rest
    <3> QED
      BY <3>1 DEF LegacyRecord, Holds
  <2>5. ASSUME v = 6
        PROVE  Holds(rest, "typed", FALSE, 3, FALSE)
    <3>1. rest = LegacyRecord("typed", FALSE, 3)
      BY <2>5
    <3> HIDE DEF rest
    <3> QED
      BY <3>1 DEF LegacyRecord, Holds
  <2>6. ASSUME v = 7
        PROVE  Holds(rest, "typed", TRUE, 3, FALSE)
    <3>1. rest = LegacyRecord("typed", TRUE, 3)
      BY <2>6
    <3> HIDE DEF rest
    <3> QED
      BY <3>1 DEF LegacyRecord, Holds
  <2>7. ASSUME v = 9
        PROVE  Holds(rest, "json", FALSE, 0, FALSE)
    <3>1. rest = LegacyRecord("json", FALSE, 0)
      BY <2>7
    <3> HIDE DEF rest
    <3> QED
      BY <3>1 DEF LegacyRecord, Holds
  <2> QED
    BY <2>1, <2>2, <2>3, <2>4, <2>5, <2>6, <2>7
<1> HIDE DEF own, rest, layout
<1>4. /\ \A x \in DOMAIN own : Over(own, rest)[x] = own[x]
      /\ \A x \in DOMAIN rest \ DOMAIN own : Over(own, rest)[x] = rest[x]
  BY DEF Over
<1>5. DOMAIN rest = {"record", "types", "free", "asymmetric"}
  BY <1>3 DEF Holds
<1>6. /\ layout.version = own["version"] /\ layout.count = own["count"]
      /\ layout.fields = own["fields"] /\ layout.policy = own["policy"]
      /\ layout.record = rest["record"] /\ layout.types = rest["types"]
      /\ layout.free = rest["free"] /\ layout.asymmetric = rest["asymmetric"]
  BY <1>1, <1>2, <1>4, <1>5
<1>7. BinaryWellFormed(layout)
  <2>1. CASE v \in {1, 2}
    BY <1>1, <1>3, <1>6, <2>1 DEF BinaryWellFormed, Holds
  <2>2. CASE v = 3
    BY <1>1, <1>3, <1>6, <2>2 DEF BinaryWellFormed, Holds
  <2>3. CASE v = 4
    BY <1>1, <1>3, <1>6, <2>3 DEF BinaryWellFormed, Holds
  <2>4. CASE v = 5
    BY <1>1, <1>3, <1>6, <2>4 DEF BinaryWellFormed, Holds
  <2>5. CASE v = 6
    BY <1>1, <1>3, <1>6, <2>5 DEF BinaryWellFormed, Holds
  <2>6. CASE v = 7
    BY <1>1, <1>3, <1>6, <2>6 DEF BinaryWellFormed, Holds
  <2>7. CASE v = 9
    BY <1>1, <1>3, <1>6, <2>7 DEF BinaryWellFormed, Holds
  <2> QED
    BY <2>1, <2>2, <2>3, <2>4, <2>5, <2>6, <2>7
<1> QED
  BY <1>1, <1>6, <1>7 DEF layout

-----------------------------------------------------------------------------
(* The state, behind a header.                                               *)

HoldsState(table, s) ==
  /\ table["ns"] = s.ns /\ table["modes"] = s.modes
  /\ table["components"] = Components(s.lasym)
  /\ table["families"] = [c \in 1 .. Components(s.lasym) |-> <<s.state, c>>]

StateOk(s) == s.lasym \in BOOLEAN /\ s.ns \in Nat \ {0} /\ s.modes \in Nat \ {0}

(* The families of a state.                                                  *)
LEMMA FamiliesAreSequence ==
  ASSUME NEW s, StateOk(s)
  PROVE  IsSequence(Families(s))
<1> DEFINE N == Components(s.lasym)
<1>1. N \in Nat
  BY DEF Components
<1>2. DOMAIN Families(s) = 1 .. N /\ Families(s) = [c \in 1 .. N |-> Families(s)[c]]
  BY DEF Families
<1> HIDE DEF N
<1> QED
  BY <1>1, <1>2, Mapped

LEMMA FamiliesReads ==
  ASSUME NEW r, Reader(r), NEW file, Len(file) \in Nat, NEW s, StateOk(s),
         NEW table, HoldsState(table, s),
         r.ok => /\ Got(r, "components", 6) = Components(s.lasym)
                 /\ Got(r, "ns", 0) = s.ns /\ Got(r, "modes", 0) = s.modes
  PROVE  Reads(r, ReadFamilies(r, file), file, Families(s), {"families"}, table)
<1> DEFINE n == Got(r, "components", 6)
           fits == r.ok /\ n \in {6, 12} /\ Got(r, "ns", 0) >= 1 /\ Got(r, "modes", 0) >= 1
           N == Components(s.lasym)
           values == [c \in 1 .. N |-> <<s.state, c>>]
<1>1. ReadFamilies(r, file) = TakeMany(Demand(r, fits), file, "family", n, "families")
  BY DEF ReadFamilies
<1>2. N \in {6, 12} /\ N \in Nat
  BY DEF Components
<1>3. r.ok => fits
  BY <1>2 DEF StateOk
<1>4. Demand(r, fits) = r
  <2>1. fits \in BOOLEAN
    OBVIOUS
  <2> HIDE DEF fits
  <2> QED
    BY <1>3, <2>1, DemandHolds
<1>5. Run(Families(s), N) /\ \A c \in 1 .. N : Families(s)[c] = F("family", values[c])
  BY DEF Families, Run
<1>6. Run(values, N) /\ table["families"] = values
  BY DEF HoldsState, Run
<1> HIDE DEF n, fits, N, values
<1>7. CASE r.ok
  <2>1. ReadFamilies(r, file) = TakeMany(r, file, "family", N, "families")
    BY <1>1, <1>4, <1>7 DEF n, N
  <2> QED
    BY <1>2, <1>5, <1>6, <2>1, ManyReads
<1>8. CASE ~r.ok
  <2>1. LET t == ReadFamilies(r, file) IN Reader(t) /\ ~t.ok
    BY <1>1, <1>4, <1>8, FailsOn
  <2> QED
    BY <1>8, <2>1 DEF Reads, Fills
<1> QED
  BY <1>7, <1>8

Header == <<<<"magic", "magic">>, <<"count", "version">>, <<"count", "precision">>,
          <<"count", "ns">>, <<"count", "modes">>>>
HeaderNames == {"magic", "version", "precision", "ns", "modes"}

(* The header of a checkpoint.                                               *)
LEMMA HeaderItems ==
  /\ IsSequence(Header) /\ Len(Header) = 5 /\ DOMAIN Header = 1 .. 5
  /\ Header[1] = <<"magic", "magic">> /\ Header[2] = <<"count", "version">>
  /\ Header[3] = <<"count", "precision">> /\ Header[4] = <<"count", "ns">>
  /\ Header[5] = <<"count", "modes">>
<1>1. IsSequence(Header) /\ Len(Header) = 5 /\ DOMAIN Header = 1 .. 5
  <2>1. \A a, b, c, d, e : DOMAIN <<a, b, c, d, e>> = 1 .. 5
    OBVIOUS
  <2> QED
    BY ShortSequences, <2>1 DEF Header
<1> QED
  BY <1>1 DEF Header

LEMMA HeaderReads ==
  ASSUME NEW r, Reader(r), NEW file, Len(file) \in Nat, NEW table
  PROVE  LET s == <<F("magic", table["magic"]), F("count", table["version"]),
                    F("count", table["precision"]), F("count", table["ns"]),
                    F("count", table["modes"])>>
         IN  /\ Reads(r, Take(r, file, Header), file, s, HeaderNames, table)
             /\ IsSequence(s)
<1> DEFINE s == <<F("magic", table["magic"]), F("count", table["version"]),
                  F("count", table["precision"]), F("count", table["ns"]),
                  F("count", table["modes"])>>
<1>1. /\ Header[1][2] = "magic" /\ Header[2][2] = "version" /\ Header[3][2] = "precision"
      /\ Header[4][2] = "ns" /\ Header[5][2] = "modes"
      /\ Header[1][1] = "magic" /\ Header[2][1] = "count" /\ Header[3][1] = "count"
      /\ Header[4][1] = "count" /\ Header[5][1] = "count"
  BY HeaderItems
<1>2. /\ IsSequence(s) /\ Len(s) = 5
      /\ s[1] = F("magic", table["magic"]) /\ s[2] = F("count", table["version"])
      /\ s[3] = F("count", table["precision"]) /\ s[4] = F("count", table["ns"])
      /\ s[5] = F("count", table["modes"])
  BY ShortSequences
<1> HIDE DEF s
<1>3. 1 .. 5 = {1, 2, 3, 4, 5}
  OBVIOUS
<1>4. {Header[k][2] : k \in 1 .. Len(Header)} = HeaderNames
  BY <1>1, <1>3, HeaderItems DEF HeaderNames
<1>5. Distinct(Header)
      /\ \A k \in 1 .. Len(Header) : s[k] = F(Header[k][1], table[Header[k][2]])
  BY <1>1, <1>2, <1>3, HeaderItems DEF Distinct
<1>6. Reads(r, Take(r, file, Header), file, s, {Header[k][2] : k \in 1 .. Len(Header)}, table)
  BY <1>2, <1>5, HeaderItems, TakeReads
<1> QED
  BY <1>2, <1>4, <1>6 DEF s

CheckpointState(s, layout) ==
  <<F("magic", "CUMECKP1"), F("count", layout.version), F("count", 0), F("count", s.ns),
    F("count", s.modes)>>
  \o Optional(layout.count, <<F("count", Components(s.lasym))>>)
  \o Families(s)

StateNames(layout) ==
  HeaderNames \cup (IF layout.count THEN {"components"} ELSE {}) \cup {"families"}

HoldsCheckpoint(table, s, layout) ==
  /\ HoldsState(table, s)
  /\ table["magic"] = "CUMECKP1" /\ table["version"] = layout.version
  /\ table["precision"] = 0

(* The reader behind the state of a checkpoint.                              *)
StateReader(file) ==
  LET h == Take(Start, file, Header)
      v == Got(h, "version", 0)
      i == Demand(h, /\ Got(h, "magic", "") = "CUMECKP1"
                     /\ v \in 1 .. 8 /\ Got(h, "precision", 0) = 0)
      c == TakeIf(v >= 7, i, file, <<<<"count", "components">>>>)
  IN  ReadFamilies(c, file)

(* A reader that has read nothing.                                           *)
LEMMA StartIsReader ==
  Reader(Start) /\ Start.ok /\ Start.at = 0 /\ DOMAIN Start.got = {}
BY DEF Reader, Start

(* The state of a checkpoint, header and component count included.           *)
LEMMA StateReads ==
  ASSUME NEW file, Len(file) \in Nat, NEW s, StateOk(s),
         NEW layout, CheckpointWellFormed(layout), s.lasym => layout.count,
         NEW table, HoldsCheckpoint(table, s, layout)
  PROVE  /\ Reads(Start, StateReader(file), file, CheckpointState(s, layout),
                  StateNames(layout), table)
         /\ IsSequence(CheckpointState(s, layout))
<1> DEFINE h == Take(Start, file, Header)
           v == Got(h, "version", 0)
           checked == /\ Got(h, "magic", "") = "CUMECKP1"
                      /\ v \in 1 .. 8 /\ Got(h, "precision", 0) = 0
           i == Demand(h, checked)
           c == TakeIf(v >= 7, i, file, <<<<"count", "components">>>>)
           q == ReadFamilies(c, file)
           A == <<F("magic", "CUMECKP1"), F("count", layout.version), F("count", 0),
                  F("count", s.ns), F("count", s.modes)>>
           B == Optional(layout.count, <<F("count", Components(s.lasym))>>)
           C == Families(s)
           NB == IF layout.count THEN {"components"} ELSE {}
<1>1. StateReader(file) = q /\ CheckpointState(s, layout) = (A \o B) \o C
      /\ StateNames(layout) = (HeaderNames \cup NB) \cup {"families"}
  BY DEF StateReader, CheckpointState, StateNames
<1>2. /\ layout.count \in BOOLEAN /\ layout.version \in 1 .. 8
      /\ layout.count <=> layout.version >= 7
  BY DEF CheckpointWellFormed
<1>3. HoldsState(table, s)
  BY DEF HoldsCheckpoint
<1>4. Reads(Start, h, file, A, HeaderNames, table) /\ IsSequence(A)
  <2>1. A = <<F("magic", table["magic"]), F("count", table["version"]),
              F("count", table["precision"]), F("count", table["ns"]),
              F("count", table["modes"])>>
    BY DEF HoldsCheckpoint, HoldsState
  <2> HIDE DEF A
  <2> QED
    BY <2>1, StartIsReader, HeaderReads
<1>5. IsSequence(B)
  BY ShortSequences, OptionalSequence
<1> HIDE DEF h, v, i, c, q, A, B, C, NB
<1>6. Reads(Start, c, file, A \o B, HeaderNames \cup NB, table)
  <2>1. ASSUME Known(Start, h, file, HeaderNames, table)
        PROVE  Reads(h, c, file, B, NB, table)
    <3>1. Reader(h) /\ (h.ok => h.at <= Len(file))
      BY <2>1 DEF Known
    <3>2. h.ok => v = layout.version /\ checked
      BY <1>2, <2>1 DEF Known, HeaderNames, Got, HoldsCheckpoint, v
    <3>3. checked \in BOOLEAN
      OBVIOUS
    <3> HIDE DEF checked
    <3>4. i = h
      BY <3>1, <3>2, <3>3, DemandHolds DEF i
    <3>5. CASE h.ok
      <4>1. c = TakeIf(layout.count, h, file, <<<<"count", "components">>>>)
        BY <1>2, <3>2, <3>4, <3>5 DEF c, TakeIf
      <4>2. layout.count => Reads(h, c, file, <<F("count", Components(s.lasym))>>,
                                  {"components"}, table)
        BY <1>3, <3>1, <4>1, OneReads DEF TakeIf, HoldsState
      <4>3. ~layout.count => c = h
        BY <4>1 DEF TakeIf
      <4> QED
        BY <1>2, <3>1, <4>2, <4>3, May DEF B, NB
    <3>6. CASE ~h.ok
      <4>1. (v >= 7) \in BOOLEAN
        OBVIOUS
      <4>2. Reader(c) /\ ~c.ok
        BY <3>1, <3>4, <3>6, <4>1, FailsOn DEF c
      <4> QED
        BY <3>6, <4>2 DEF Reads, Fills
    <3> QED
      BY <3>5, <3>6
  <2> QED
    BY <1>4, <1>5, <2>1, StartIsReader, Then
<1>7. Reads(Start, q, file, (A \o B) \o C, (HeaderNames \cup NB) \cup {"families"}, table)
      /\ IsSequence((A \o B) \o C)
  <2>1. ASSUME Known(Start, c, file, HeaderNames \cup NB, table)
        PROVE  Reads(c, q, file, C, {"families"}, table)
    <3>1. Reader(c)
      BY <2>1 DEF Known
    <3>2. ASSUME c.ok
          PROVE  /\ Got(c, "components", 6) = Components(s.lasym)
                 /\ Got(c, "ns", 0) = s.ns /\ Got(c, "modes", 0) = s.modes
      <4>1. /\ DOMAIN c.got = (HeaderNames \cup NB) \cup DOMAIN Start.got
            /\ \A x \in HeaderNames \cup NB : c.got[x] = table[x]
        BY <2>1, <3>2 DEF Known
      <4>2. Got(c, "ns", 0) = s.ns /\ Got(c, "modes", 0) = s.modes
        BY <1>3, <4>1 DEF Got, HeaderNames, HoldsState
      <4>3. CASE layout.count
        BY <1>3, <4>1, <4>2, <4>3 DEF Got, NB, HoldsState
      <4>4. CASE ~layout.count
        <5>1. "components" \notin DOMAIN c.got
          BY <4>1, <4>4, StartIsReader DEF NB, HeaderNames
        <5>2. Components(s.lasym) = 6
          BY <4>4 DEF Components, StateOk
        <5> QED
          BY <4>2, <5>1, <5>2 DEF Got
      <4> QED
        BY <4>3, <4>4
    <3> QED
      BY <1>3, <3>1, <3>2, FamiliesReads DEF q, C
  <2>2. IsSequence(C)
    BY FamiliesAreSequence DEF C
  <2>3. IsSequence(A \o B) /\ IsSequence((A \o B) \o C)
    BY <1>4, <1>5, <2>2, Joined
  <2> QED
    BY <1>6, <2>1, <2>2, <2>3, StartIsReader, Then
<1> QED
  BY <1>1, <1>7

(* A record behind a failed read.                                            *)
LEMMA RecordFails ==
  ASSUME NEW r, Reader(r), ~r.ok, NEW file, NEW flags
  PROVE  Reader(ReadRecord(r, file, flags)) /\ ~ReadRecord(r, file, flags).ok
<1> DEFINE a == Take(r, file, <<<<"scalars", "scalars">>, <<"schema", "schema">>>>)
           b == TakeIf(flags.types, a, file, <<<<"types", "types">>>>)
           c == Take(b, file, <<<<"profiles", "profiles">>, <<"count", "stages">>>>)
           d == TakeMany(c, file, "stage", Got(c, "stages", -1), "schedule")
           e == Take(d, file, <<<<"boundary", "boundary">>>>)
           f == TakeIf(flags.free >= 1, e, file, <<<<"free", "free">>>>)
           g == TakeIf(flags.free >= 2, f, file, <<<<"coils", "coils">>>>)
           h == TakeIf(flags.free >= 3, g, file, <<<<"count", "embedded">>>>)
           i == TakeIf(Got(h, "embedded", 0) # 0, h, file, <<<<"makegrid", "makegrid">>>>)
           j == TakeIf(flags.asymmetric, i, file, <<<<"count", "lasym">>>>)
           k == Demand(j, Got(j, "lasym", 0) \in {0, 1})
           l == TakeIf(flags.asymmetric, k, file, <<<<"vectors", "vectors">>>>)
           Failed(t) == Reader(t) /\ ~t.ok
<1>1. ReadRecord(r, file, flags) = l
  BY DEF ReadRecord
<1> HIDE DEF a, b, c, d, e, f, g, h, i, j, k, l
<1>2. Failed(a) /\ Failed(b) /\ Failed(c)
  BY FailsOn DEF a, b, c
<1>3. Failed(d) /\ Failed(e) /\ Failed(f)
  BY <1>2, FailsOn DEF d, e, f
<1>4. Failed(g) /\ Failed(h) /\ Failed(i)
  BY <1>3, FailsOn DEF g, h, i
<1>5. Failed(j)
  BY <1>4, FailsOn DEF j
<1>6. Failed(k)
  <2>1. (Got(j, "lasym", 0) \in {0, 1}) \in BOOLEAN
    OBVIOUS
  <2> QED
    BY <1>5, <2>1, Demanded DEF k
<1> QED
  BY <1>1, <1>6, FailsOn DEF l

(* What the readers find of the record, if they have read all of it.         *)
LEMMA RecordFound ==
  ASSUME NEW p, p.lasym \in BOOLEAN, NEW layout, TypedLayout(layout),
         layout.asymmetric <=> p.lasym,
         NEW table, HoldsRecord(table, p), NEW q, NEW r, NEW file,
         Known(q, r, file, Recorded(p, layout), table), r.ok,
         DOMAIN q.got \cap RecordNames = {}
  PROVE  /\ RecordIs(r, p, layout)
         /\ Got(r, "lasym", 0) = IF p.lasym THEN 1 ELSE 0
<1>1. /\ DOMAIN r.got = Recorded(p, layout) \cup DOMAIN q.got
      /\ \A x \in Recorded(p, layout) : r.got[x] = table[x]
  BY DEF Known
<1>2. \A x \in RecordNames : x \in DOMAIN r.got <=> x \in Recorded(p, layout)
  BY <1>1
<1>3. /\ "types" \in DOMAIN r.got <=> layout.types
      /\ "free" \in DOMAIN r.got <=> layout.free >= 1
      /\ "coils" \in DOMAIN r.got <=> layout.free >= 2
      /\ "makegrid" \in DOMAIN r.got <=> layout.free >= 3 /\ p.embedded
      /\ "vectors" \in DOMAIN r.got <=> p.lasym
      /\ "lasym" \in DOMAIN r.got <=> p.lasym
  BY <1>2 DEF RecordNames, Recorded
<1>4. \A name \in {"scalars", "schema", "types", "profiles", "boundary",
                   "free", "coils", "makegrid", "vectors"} :
        name \in DOMAIN r.got => r.got[name] = name
  BY <1>1, <1>2 DEF RecordNames, HoldsRecord
<1>5. r.got["schedule"] = [g \in 1 .. p.stages |-> <<"stage", g>>]
  BY <1>1 DEF Recorded, HoldsRecord
<1>6. Got(r, "lasym", 0) = IF p.lasym THEN 1 ELSE 0
  <2>1. p.lasym => "lasym" \in Recorded(p, layout)
    BY DEF Recorded
  <2> QED
    BY <1>1, <1>3, <2>1 DEF Got, HoldsRecord
<1> QED
  BY <1>3, <1>4, <1>5, <1>6 DEF RecordIs

(* Everything that a container can hold, by the names the readers use.       *)
Table(magic, version, s, p, report) ==
  [magic |-> magic, version |-> version, precision |-> 0, ns |-> s.ns,
   modes |-> s.modes, components |-> Components(s.lasym),
   families |-> [c \in 1 .. Components(s.lasym) |-> <<s.state, c>>],
   dims |-> 1, fields |-> s.state, status |-> "status", grids |-> Len(report),
   build |-> "build", policy |-> "policy", scalar |-> "scalar",
   provenance |-> "provenance", result |-> "result", report |-> report,
   restarts |-> report[Len(report)], list |-> [k \in 1 .. report[Len(report)] |-> k],
   scalars |-> "scalars", schema |-> "schema",
   types |-> "types", profiles |-> "profiles", boundary |-> "boundary",
   free |-> "free", coils |-> "coils", makegrid |-> "makegrid",
   vectors |-> "vectors", stages |-> p.stages,
   schedule |-> [g \in 1 .. p.stages |-> <<"stage", g>>],
   embedded |-> IF p.embedded THEN 1 ELSE 0, lasym |-> IF p.lasym THEN 1 ELSE 0]

Holding(table, magic, version, s, p, report) ==
  /\ HoldsState(table, s) /\ HoldsRecord(table, p)
  /\ table["magic"] = magic /\ table["version"] = version
  /\ table["precision"] = 0 /\ table["dims"] = 1 /\ table["fields"] = s.state
  /\ table["grids"] = Len(report) /\ table["report"] = report
  /\ \A x \in {"status", "build", "policy", "scalar", "provenance", "result"} : table[x] = x
  /\ table["restarts"] = report[Len(report)]
  /\ table["list"] = [k \in 1 .. report[Len(report)] |-> k]

(* There is a table of what a file says.                                     *)
LEMMA TableExists ==
  ASSUME NEW magic, NEW version, NEW s, NEW p, NEW report
  PROVE  \E table : Holding(table, magic, version, s, p, report)
<1>1. Holding(Table(magic, version, s, p, report), magic, version, s, p, report)
  BY DEF Table, Holding, HoldsState, HoldsRecord
<1> QED
  BY <1>1

LEMMA Failing ==
  ASSUME NEW r, Reader(r)
  PROVE  Reader([r EXCEPT !.ok = FALSE]) /\ ~[r EXCEPT !.ok = FALSE].ok
<1> DEFINE t == [r EXCEPT !.ok = FALSE]
<1>1. t = [r EXCEPT !.ok = FALSE]
  OBVIOUS
<1> HIDE DEF t
<1>2. Reader(t) /\ ~t.ok
  BY <1>1 DEF Reader
<1> QED
  BY <1>2 DEF t

LEMMA TakesOn ==
  ASSUME NEW r, Reader(r), NEW file, NEW items, Len(items) \in Nat
  PROVE  Reader(Take(r, file, items)) /\ \A c : Reader(TakeIf(c, r, file, items))
<1>1. Reader([r EXCEPT !.ok = FALSE])
  BY Failing
<1>2. \A got : Reader([ok |-> TRUE, at |-> r.at + Len(items), got |-> got])
  BY DEF Reader
<1>3. Reader(Take(r, file, items))
  BY <1>1, <1>2 DEF Take
<1> QED
  BY <1>3 DEF TakeIf

LEMMA TakesManyOn ==
  ASSUME NEW r, Reader(r), NEW file, NEW type, NEW n, r.ok => n \in Nat, NEW name
  PROVE  Reader(TakeMany(r, file, type, n, name))
<1>1. Reader([r EXCEPT !.ok = FALSE])
  BY Failing
<1>2. r.ok => \A got : Reader([ok |-> TRUE, at |-> r.at + n, got |-> got])
  BY DEF Reader
<1> QED
  BY <1>1, <1>2 DEF TakeMany

(* The state is read behind a header that has been checked.                  *)
LEMMA StateReaderIs ==
  ASSUME NEW file, Len(file) \in Nat
  PROVE  LET h == Take(Start, file, Header)
         IN  /\ Reader(h) /\ Reader(StateReader(file))
             /\ StateReader(file).ok => h.ok /\ Got(h, "magic", "") = "CUMECKP1"
<1> DEFINE h == Take(Start, file, Header)
           v == Got(h, "version", 0)
           checked == /\ Got(h, "magic", "") = "CUMECKP1"
                      /\ v \in 1 .. 8 /\ Got(h, "precision", 0) = 0
           i == Demand(h, checked)
           items == <<<<"count", "components">>>>
           c == TakeIf(v >= 7, i, file, items)
           n == Got(c, "components", 6)
           fits == c.ok /\ n \in {6, 12} /\ Got(c, "ns", 0) >= 1 /\ Got(c, "modes", 0) >= 1
           d == Demand(c, fits)
<1>1. checked \in BOOLEAN /\ fits \in BOOLEAN /\ (v >= 7) \in BOOLEAN
  OBVIOUS
<1>c. checked => Got(h, "magic", "") = "CUMECKP1"
  OBVIOUS
<1>a. fits => n \in {6, 12}
  OBVIOUS
<1>b. Len(items) = 1
  OBVIOUS
<1>2. StateReader(file) = TakeMany(d, file, "family", n, "families")
  BY DEF StateReader, ReadFamilies
<1> HIDE DEF h, v, checked, i, items, c, n, fits, d
<1>3. Reader(h)
  BY StartIsReader, HeaderItems, TakesOn DEF h
<1>4. Reader(i) /\ i.ok = (h.ok /\ checked)
  BY <1>1, <1>3, Demanded DEF i
<1>5. Reader(c) /\ (~i.ok => ~c.ok)
  <2>1. Len(items) \in Nat
    BY <1>b
  <2>2. Reader(c)
    BY <1>4, <2>1, TakesOn DEF c
  <2>3. ~i.ok => ~c.ok
    BY <1>4, FailsOn DEF c
  <2> QED
    BY <2>2, <2>3
<1>6. Reader(d) /\ d.ok = (c.ok /\ fits)
  BY <1>1, <1>5, Demanded DEF d
<1>7. Reader(StateReader(file)) /\ (~d.ok => ~StateReader(file).ok)
  <2>1. d.ok => n \in Nat
    <3>1. \A m : m \in {6, 12} => m \in Nat
      OBVIOUS
    <3> QED
      BY <1>a, <1>6, <3>1
  <2> QED
    BY <1>2, <1>6, <2>1, TakesManyOn, FailsOn
<1> QED
  BY <1>c, <1>1, <1>3, <1>4, <1>5, <1>6, <1>7 DEF h

(* What the version says is what the header says.                            *)
LEMMA VersionRead ==
  ASSUME NEW file, Len(file) \in Nat, NEW s, StateOk(s),
         NEW layout, CheckpointWellFormed(layout),
         NEW table, HoldsCheckpoint(table, s, layout),
         Ahead(file, 0, CheckpointState(s, layout))
  PROVE  StateReader(file).ok => Got(Take(Start, file, Header), "version", 0) = layout.version
<1> DEFINE h == Take(Start, file, Header)
           A == <<F("magic", "CUMECKP1"), F("count", layout.version), F("count", 0),
                  F("count", s.ns), F("count", s.modes)>>
           B == Optional(layout.count, <<F("count", Components(s.lasym))>>)
<1>1. A = <<F("magic", table["magic"]), F("count", table["version"]),
            F("count", table["precision"]), F("count", table["ns"]),
            F("count", table["modes"])>>
  BY DEF HoldsCheckpoint, HoldsState
<1>2. CheckpointState(s, layout) = (A \o B) \o Families(s)
  BY DEF CheckpointState
<1>3. IsSequence(A) /\ IsSequence(B) /\ IsSequence(Families(s))
  BY ShortSequences, OptionalSequence, FamiliesAreSequence
<1>4. Ahead(file, 0, A)
  <2> HIDE DEF A, B
  <2> DEFINE D == A \o B
             E == Families(s)
  <2>1. IsSequence(D) /\ IsSequence(E) /\ Ahead(file, 0, D \o E)
    BY <1>2, <1>3, Joined
  <2> HIDE DEF D, E
  <2>2. Ahead(file, 0, D)
    BY <2>1, AheadSplits
  <2> QED
    BY <1>3, <2>2, AheadSplits DEF D
<1>5. Reads(Start, h, file, A, HeaderNames, table)
  <2> HIDE DEF A
  <2> QED
    BY <1>1, StartIsReader, HeaderReads
<1>6. StateReader(file).ok => h.ok
  BY StateReaderIs
<1> HIDE DEF h, A, B
<1>7. Fills(Start, h, file, Len(A), HeaderNames, table)
  BY <1>4, <1>5, StartIsReader DEF Reads
<1>8. h.ok => "version" \in DOMAIN h.got /\ h.got["version"] = table["version"]
  BY <1>7 DEF Fills, HeaderNames
<1> QED
  BY <1>6, <1>8 DEF h, Got, HoldsCheckpoint

(* What does not begin as a checkpoint does is refused.                      *)
LEMMA ForeignRefused ==
  ASSUME NEW file, Len(file) \in Nat, NEW asked \in BOOLEAN, ReadCheckpoint(file, asked).ok
  PROVE  file # <<>> /\ file[1].type = "magic" /\ file[1].value = "CUMECKP1"
<1> DEFINE h == Take(Start, file, Header)
           v == Got(h, "version", 0)
           q == StateReader(file)
           e == Demand(q, v # 7)
           P == ReadRecord(e, file, CheckpointFlags(v))
           r == ReadCheckpoint(file, asked)
           names == {Header[k][2] : k \in DOMAIN Header}
           At(name) == CHOOSE k \in DOMAIN Header : Header[k][2] = name
           taken == [x \in names |-> Taken(file[Start.at + At(x)], Header[At(x)][1])]
<1>1. r = IF asked /\ v >= 2 THEN Demand(P, SymmetryAgrees(P)) ELSE q
  BY DEF ReadCheckpoint, StateReader, Header
<1>2. Reader(h) /\ Reader(q) /\ (q.ok => h.ok /\ Got(h, "magic", "") = "CUMECKP1")
  BY StateReaderIs
<1>3. h = IF ~Start.ok \/ Start.at + Len(Header) > Len(file) THEN [Start EXCEPT !.ok = FALSE]
          ELSE [ok |-> TRUE, at |-> Start.at + Len(Header), got |-> Over(taken, Start.got)]
  BY DEF Take
<1>4. At("magic") = 1 /\ "magic" \in names
  <2>1. \A k \in DOMAIN Header : Header[k][2] = "magic" <=> k = 1
    BY HeaderItems
  <2>2. 1 \in DOMAIN Header
    BY HeaderItems
  <2> QED
    BY <2>1, <2>2
<1>5. taken["magic"] = Taken(file[1], "magic")
  BY <1>4, HeaderItems, StartIsReader
<1>6. DOMAIN taken = names
  OBVIOUS
<1>7. (v # 7) \in BOOLEAN
  OBVIOUS
<1> HIDE DEF h, v, q, e, P, r, names, At, taken
<1>8. q.ok
  <2>1. ASSUME ~q.ok
        PROVE  FALSE
    <3>1. Reader(e) /\ ~e.ok
      BY <1>2, <1>7, <2>1, Demanded DEF e
    <3>2. Reader(P) /\ ~P.ok
      BY <3>1, RecordFails DEF P
    <3>3. ~Demand(P, SymmetryAgrees(P)).ok
      BY <3>2 DEF Demand, Reader
    <3> QED
      BY <1>1, <2>1, <3>3 DEF r
  <2> QED
    BY <2>1
<1>9. h.ok /\ Got(h, "magic", "") = "CUMECKP1"
  BY <1>2, <1>8
<1>10. 5 <= Len(file) /\ h.got = Over(taken, Start.got)
  <2>1. ~[Start EXCEPT !.ok = FALSE].ok
    BY StartIsReader, Failing
  <2>2. ~(~Start.ok \/ Start.at + Len(Header) > Len(file))
    BY <1>3, <1>9, <2>1
  <2>3. h = [ok |-> TRUE, at |-> Start.at + Len(Header), got |-> Over(taken, Start.got)]
    BY <1>3, <2>2
  <2>4. h.got = Over(taken, Start.got)
    BY <2>3
  <2> QED
    BY <2>2, <2>4, HeaderItems, StartIsReader
<1>11. "magic" \in DOMAIN h.got /\ h.got["magic"] = taken["magic"]
  BY <1>4, <1>6, <1>10 DEF Over
<1>12. Taken(file[1], "magic") = "CUMECKP1"
  BY <1>5, <1>9, <1>11 DEF Got
<1>13. file[1].type = "magic" /\ file[1].value = "CUMECKP1"
  BY <1>12 DEF Taken, Garbage
<1> QED
  BY <1>10, <1>13

LEMMA RecordIsSequence ==
  ASSUME NEW p, p.stages \in Nat, p.embedded \in BOOLEAN, p.lasym \in BOOLEAN, NEW layout,
         TypedLayout(layout) \/ layout.record \in {"none", "json"}
  PROVE  IsSequence(InputRecord(p, layout))
<1>1. CASE TypedLayout(layout)
  <2>1. PICK table : Holding(table, "magic", 0, layout, p, <<>>)
    BY TableExists
  <2>2. Len(<<>>) \in Nat /\ Start.at <= Len(<<>>) /\ DOMAIN Start.got \cap RecordNames = {}
    BY StartIsReader
  <2> QED
    BY <1>1, <2>1, <2>2, StartIsReader, RecordReads DEF Holding
<1>2. CASE layout.record = "none"
  BY <1>2, ShortSequences DEF InputRecord
<1>3. CASE layout.record = "json"
  <2>1. InputRecord(p, layout) = <<F("json", "json")>>
    BY <1>3 DEF InputRecord
  <2> QED
    BY <2>1, ShortSequences
<1> QED
  BY <1>1, <1>2, <1>3

(* A checkpoint is a sequence of fields.                                     *)
LEMMA CheckpointIsSequence ==
  ASSUME NEW s, StateOk(s), NEW p, p.stages \in Nat, p.embedded \in BOOLEAN,
         p.lasym = s.lasym, NEW layout, CheckpointWellFormed(layout)
  PROVE  /\ IsSequence(CheckpointState(s, layout)) /\ IsSequence(InputRecord(p, layout))
         /\ CheckpointFile(s, p, layout) = CheckpointState(s, layout) \o InputRecord(p, layout)
         /\ IsSequence(CheckpointFile(s, p, layout))
<1> DEFINE A == <<F("magic", "CUMECKP1"), F("count", layout.version), F("count", 0),
                  F("count", s.ns), F("count", s.modes)>>
           B == Optional(layout.count, <<F("count", Components(s.lasym))>>)
<1>1. IsSequence(A) /\ IsSequence(B) /\ IsSequence(Families(s))
  BY ShortSequences, OptionalSequence, FamiliesAreSequence
<1>2. CheckpointState(s, layout) = (A \o B) \o Families(s)
  BY DEF CheckpointState
<1> HIDE DEF A, B
<1>3. IsSequence(CheckpointState(s, layout))
  BY <1>1, <1>2, Joined
<1>4. TypedLayout(layout) \/ layout.record \in {"none", "json"}
  BY FlagsOfLayout DEF CheckpointWellFormed
<1>5. IsSequence(InputRecord(p, layout))
  BY <1>4, RecordIsSequence DEF StateOk
<1>6. CheckpointFile(s, p, layout) = CheckpointState(s, layout) \o InputRecord(p, layout)
  BY DEF CheckpointFile, CheckpointState
<1> QED
  BY <1>3, <1>5, <1>6, Joined

(* What a writer of checkpoints is given, and the layout it writes.          *)
CheckpointWritten(s, p, layout) ==
  /\ StateOk(s) /\ p.lasym = s.lasym /\ p.stages \in Nat /\ p.embedded \in BOOLEAN
  /\ CheckpointWellFormed(layout) /\ (s.lasym => layout.count)
  /\ layout.record = "typed" => (layout.asymmetric <=> s.lasym)

(* Whatever is accepted of a checkpoint, whole or cut short, is what its     *)
(* writer was given, and a whole one of a readable version is accepted.      *)
THEOREM CheckpointIsRead ==
  ASSUME NEW file, Len(file) \in Nat, NEW s, NEW p, NEW layout,
         CheckpointWritten(s, p, layout),
         Ahead(file, 0, CheckpointFile(s, p, layout)), NEW asked \in BOOLEAN
  PROVE  LET r == ReadCheckpoint(file, asked)
         IN  /\ r.ok => StateIs(r, s) /\ (asked => RecordIs(r, p, layout))
             /\ layout.version # 7 /\ Len(file) = Len(CheckpointFile(s, p, layout)) => r.ok
<1> DEFINE h == Take(Start, file, Header)
           v == Got(h, "version", 0)
           q == StateReader(file)
           e == Demand(q, v # 7)
           P == ReadRecord(e, file, CheckpointFlags(v))
           r == ReadCheckpoint(file, asked)
           A == CheckpointState(s, layout)
           B == InputRecord(p, layout)
           W == CheckpointFile(s, p, layout)
<1>w. /\ StateOk(s) /\ p.lasym = s.lasym /\ p.stages \in Nat /\ p.embedded \in BOOLEAN
      /\ CheckpointWellFormed(layout) /\ (s.lasym => layout.count)
      /\ layout.record = "typed" => (layout.asymmetric <=> s.lasym)
  BY DEF CheckpointWritten
<1> USE <1>w
<1>1. r = IF asked /\ v >= 2 THEN Demand(P, SymmetryAgrees(P)) ELSE q
  BY DEF ReadCheckpoint, StateReader, Header
<1>2. W = A \o B
  BY DEF CheckpointFile, CheckpointState
<1>0. PICK table : Holding(table, "CUMECKP1", layout.version, s, p, <<>>)
  BY TableExists
<1>3. HoldsCheckpoint(table, s, layout) /\ HoldsRecord(table, p)
  BY <1>0 DEF Holding, HoldsCheckpoint
<1>4. /\ p.lasym \in BOOLEAN /\ layout.version \in 1 .. 8
      /\ layout.record = IF layout.version = 1 THEN "none"
                         ELSE IF layout.version = 7 THEN "json" ELSE "typed"
  BY DEF StateOk, CheckpointWellFormed
<1> HIDE DEF h, v, q, e, P, r, A, B, W
<1>5. Reads(Start, q, file, A, StateNames(layout), table) /\ IsSequence(A)
  BY <1>3, StateReads DEF q, A
<1>6. IsSequence(B)
  BY CheckpointIsSequence DEF B
<1>7. /\ Len(A) \in Nat /\ Len(B) \in Nat /\ Len(W) = Len(A) + Len(B)
      /\ Ahead(file, 0, A)
  <2>1. Ahead(file, 0, W)
    BY DEF W
  <2> QED
    BY <1>2, <1>5, <1>6, <2>1, Joined, AheadSplits
<1>8. Fills(Start, q, file, Len(A), StateNames(layout), table)
  BY <1>5, <1>7, StartIsReader DEF Reads
<1>9. /\ Reader(q) /\ (q.ok <=> Len(A) <= Len(file))
      /\ q.ok => /\ q.at = Len(A) /\ DOMAIN q.got = StateNames(layout)
                 /\ \A x \in StateNames(layout) : q.got[x] = table[x]
  BY <1>7, <1>8, StartIsReader DEF Fills
<1>10. q.ok => v = layout.version
  BY <1>3, <1>7, VersionRead DEF A, q, v, h
<1>11. q.ok => StateIs(q, s)
  BY <1>3, <1>9 DEF StateIs, StateNames, HeaderNames, HoldsCheckpoint, HoldsState
<1>12. CASE ~q.ok
  <2>1. (v # 7) \in BOOLEAN
    OBVIOUS
  <2>2. Reader(e) /\ ~e.ok
    BY <1>9, <1>12, <2>1, Demanded DEF e
  <2>3. Reader(P) /\ ~P.ok
    BY <2>2, RecordFails DEF P
  <2>4. ~Demand(P, SymmetryAgrees(P)).ok
    BY <2>3 DEF Demand, Reader
  <2>5. ~r.ok
    BY <1>1, <1>12, <2>4
  <2> QED
    BY <1>7, <1>9, <1>12, <2>5 DEF r, W
<1>13. CASE q.ok /\ ~(asked /\ v >= 2)
  <2>1. r = q
    BY <1>1, <1>13
  <2>2. asked => RecordIs(r, p, layout)
    <3>1. asked => layout.record = "none"
      BY <1>4, <1>10, <1>13
    <3> QED
      BY <3>1 DEF RecordIs
  <2> QED
    BY <1>11, <1>13, <2>1, <2>2 DEF r
<1>14. CASE q.ok /\ asked /\ v = 7
  <2>1. Reader(e) /\ ~e.ok
    BY <1>9, <1>14, Demanded DEF e
  <2>2. Reader(P) /\ ~P.ok
    BY <2>1, RecordFails DEF P
  <2>3. ~Demand(P, SymmetryAgrees(P)).ok
    BY <2>2 DEF Demand, Reader
  <2>4. ~r.ok
    BY <1>1, <1>14, <2>3
  <2> QED
    BY <1>10, <1>14, <2>4 DEF r
<1>15. CASE q.ok /\ asked /\ v >= 2 /\ v # 7
  <2>1. layout.record = "typed" /\ v = layout.version
    BY <1>4, <1>10, <1>15
  <2> DEFINE flags == CheckpointFlags(layout.version)
  <2>2. /\ TypedLayout(layout) /\ flags.types = layout.types
        /\ flags.free = layout.free /\ flags.asymmetric = layout.asymmetric
    BY <2>1, FlagsOfLayout
  <2> HIDE DEF flags
  <2>3. e = q
    <3>1. (v # 7) \in BOOLEAN /\ (v # 7)
      BY <1>15
    <3> QED
      BY <1>9, <3>1, DemandHolds DEF e
  <2>4. P = ReadRecord(q, file, flags)
    BY <2>1, <2>3 DEF P, flags
  <2>5. DOMAIN q.got \cap RecordNames = {}
    BY <1>9, <1>15 DEF StateNames, HeaderNames, RecordNames
  <2>6. Reads(q, P, file, B, Recorded(p, layout), table)
    BY <1>3, <1>4, <1>7, <1>9, <2>2, <2>4, <2>5, RecordReads DEF B
  <2>7. Ahead(file, q.at, B)
    <3>1. Ahead(file, 0, A \o B) /\ 0 + Len(A) = Len(A)
      BY <1>2, <1>7 DEF W
    <3> QED
      BY <1>5, <1>6, <1>9, <1>15, <3>1, AheadSplits
  <2>8. Fills(q, P, file, Len(B), Recorded(p, layout), table)
    BY <2>6, <2>7 DEF Reads
  <2>9. Reader(P) /\ (P.ok <=> Len(A) + Len(B) <= Len(file))
    BY <1>9, <1>15, <2>8 DEF Fills
  <2>10. P.ok => /\ RecordIs(P, p, layout) /\ StateIs(P, s) /\ SymmetryAgrees(P)
    <3> SUFFICES ASSUME P.ok
                 PROVE  RecordIs(P, p, layout) /\ StateIs(P, s) /\ SymmetryAgrees(P)
      OBVIOUS
    <3>1. Known(q, P, file, Recorded(p, layout), table)
      BY <1>7, <1>9, <2>8, FillsKnown
    <3>2. RecordIs(P, p, layout) /\ Got(P, "lasym", 0) = IF p.lasym THEN 1 ELSE 0
      BY <1>3, <1>4, <2>1, <2>2, <2>5, <3>1, RecordFound
    <3>3. \A x \in StateNames(layout) : x \in DOMAIN P.got /\ P.got[x] = table[x]
      <4>1. StateNames(layout) \cap Recorded(p, layout) = {}
        BY DEF StateNames, HeaderNames, Recorded
      <4> QED
        BY <1>9, <1>15, <3>1, <4>1 DEF Known
    <3>4. StateIs(P, s)
      BY <1>3, <3>3 DEF StateIs, StateNames, HeaderNames, HoldsCheckpoint, HoldsState
    <3>5. Got(P, "components", 6) = Components(s.lasym)
      <4>1. CASE layout.count
        BY <1>3, <3>3, <4>1 DEF Got, StateNames, HoldsCheckpoint, HoldsState
      <4>2. CASE ~layout.count
        <5>1. "components" \notin DOMAIN P.got
          <6>1. DOMAIN P.got = Recorded(p, layout) \cup StateNames(layout)
            BY <1>9, <1>15, <3>1 DEF Known
          <6>2. "components" \notin Recorded(p, layout)
            BY DEF Recorded
          <6>3. "components" \notin StateNames(layout)
            BY <4>2 DEF StateNames, HeaderNames
          <6> QED
            BY <6>1, <6>2, <6>3
        <5>2. Components(s.lasym) = 6
          BY <4>2 DEF Components, StateOk
        <5> QED
          BY <5>1, <5>2 DEF Got
      <4> QED
        BY <4>1, <4>2
    <3>6. SymmetryAgrees(P)
      BY <1>4, <3>2, <3>5 DEF SymmetryAgrees, Components
    <3> QED
      BY <3>2, <3>4, <3>6
  <2>11. Demand(P, SymmetryAgrees(P)) = P
    <3>1. SymmetryAgrees(P) \in BOOLEAN
      BY DEF SymmetryAgrees
    <3> QED
      BY <2>9, <2>10, <3>1, DemandHolds
  <2>12. r = P
    BY <1>1, <1>15, <2>11
  <2> QED
    BY <1>7, <2>9, <2>10, <2>12 DEF r, W
<1> QED
  BY <1>12, <1>13, <1>14, <1>15, <1>4, <1>10

-----------------------------------------------------------------------------
(* Counting.                                                                 *)

(* If any number will do, there is a least one.                              *)
LEMMA LowestOf ==
  ASSUME NEW T, T \subseteq Nat, T # {}
  PROVE  \E n \in T : \A m \in T : n <= m
<1>1. \E n \in T : \A m \in T : ~(<<m, n>> \in OpToRel(<, Nat))
  BY WFMin, NatLessThanWellFounded
<1>2. PICK n \in T : \A m \in T : ~(<<m, n>> \in OpToRel(<, Nat))
  BY <1>1
<1>3. ASSUME NEW m \in T
      PROVE  n <= m
  <2>1. ~(<<m, n>> \in OpToRel(<, Nat))
    BY <1>2
  <2>2. ~(m < n)
    BY <2>1 DEF OpToRel
  <2> QED
    BY <2>2
<1> QED
  BY <1>3

(* Induction: the numbers that are not in S have no least one.               *)
LEMMA Counting ==
  ASSUME NEW S, 0 \in S, \A n \in Nat : n \in S => n + 1 \in S
  PROVE  Nat \subseteq S
<1> SUFFICES ASSUME ~(Nat \subseteq S)
             PROVE  FALSE
  OBVIOUS
<1> DEFINE T == Nat \ S
<1>1. PICK n \in T : \A m \in T : n <= m
  BY LowestOf
<1>2. n # 0 /\ n \in Nat
  OBVIOUS
<1>3. n - 1 \in Nat /\ n - 1 \notin T
  BY <1>1, <1>2
<1>4. n - 1 \in S
  BY <1>3
<1> QED
  BY <1>2, <1>3, <1>4

(* What a recursive function on 0 .. n comes to.                             *)
LEMMA ConcatenatedIs ==
  ASSUME NEW seqs, Len(seqs) \in Nat
  PROVE  \E f : /\ f[0] = <<>>
                /\ \A n \in 1 .. Len(seqs) : f[n] = f[n - 1] \o seqs[n]
                /\ Concatenated(seqs) = f[Len(seqs)]
<1> DEFINE N == Len(seqs)
           Step(f, n) == f = [k \in 0 .. n |-> IF k = 0 THEN <<>> ELSE f[k - 1] \o seqs[k]]
           S == {n \in Nat : \E f : Step(f, n)}
<1>0. N \in Nat
  OBVIOUS
<1>1. 0 \in S
  <2> DEFINE g == [k \in 0 .. 0 |-> <<>>]
  <2>1. Step(g, 0)
    OBVIOUS
  <2> HIDE DEF g
  <2>2. \E f : Step(f, 0)
    BY <2>1
  <2> QED
    BY <2>2
<1>2. ASSUME NEW n \in Nat, n \in S
      PROVE  n + 1 \in S
  <2>1. PICK f : Step(f, n)
    BY <1>2
  <2> DEFINE g == [k \in 0 .. n + 1 |-> IF k <= n THEN f[k] ELSE f[n] \o seqs[n + 1]]
  <2>2. ASSUME NEW k \in 0 .. n + 1
        PROVE  g[k] = IF k = 0 THEN <<>> ELSE g[k - 1] \o seqs[k]
    <3>1. CASE k = n + 1
      BY <3>1
    <3>2. CASE k \in 0 .. n
      <4>1. g[k] = f[k] /\ (k # 0 => k - 1 \in 0 .. n /\ g[k - 1] = f[k - 1])
        BY <3>2
      <4>2. f[k] = IF k = 0 THEN <<>> ELSE f[k - 1] \o seqs[k]
        BY <2>1, <3>2
      <4> QED
        BY <4>1, <4>2
    <3> QED
      BY <3>1, <3>2
  <2>3. g = [k \in 0 .. n + 1 |-> g[k]]
    OBVIOUS
  <2> HIDE DEF g
  <2>4. Step(g, n + 1)
    BY <2>2, <2>3
  <2>5. n + 1 \in Nat
    OBVIOUS
  <2> HIDE DEF Step
  <2>6. \E h : Step(h, n + 1)
    BY <2>4
  <2> QED
    BY <2>5, <2>6
<1>3. Nat \subseteq S
  <2> HIDE DEF S
  <2> QED
    BY <1>1, <1>2, Counting
<1>4. \E f : Step(f, N)
  BY <1>3
<1>5. Concatenated(seqs) = (CHOOSE f : Step(f, N))[N]
  BY DEF Concatenated
<1> DEFINE h == CHOOSE f : Step(f, N)
<1>6. Step(h, N)
  BY <1>4
<1> HIDE DEF h, N
<1>7. h[0] = <<>> /\ \A n \in 1 .. N : h[n] = h[n - 1] \o seqs[n]
  BY <1>0, <1>6
<1> QED
  BY <1>5, <1>7 DEF h, N

LEMMA StagesAreRead ==
  ASSUME NEW r, r.ok, NEW file, Got(r, "grids", -1) \in Nat
  PROVE  \E f : /\ f[0] = r
                /\ \A g \in 1 .. Got(r, "grids", -1) : f[g] = ReadStage(f[g - 1], file)
                /\ ReadStages(r, file) = f[Got(r, "grids", -1)]
<1> DEFINE n == Got(r, "grids", -1)
           Step(f, m) == f = [g \in 0 .. m |-> IF g = 0 THEN r ELSE ReadStage(f[g - 1], file)]
           S == {m \in Nat : \E f : Step(f, m)}
<1>0. n \in Nat
  OBVIOUS
<1>1. 0 \in S
  <2> DEFINE g == [k \in 0 .. 0 |-> r]
  <2>1. Step(g, 0)
    OBVIOUS
  <2> HIDE DEF g
  <2>2. \E f : Step(f, 0)
    BY <2>1
  <2> QED
    BY <2>2
<1>2. ASSUME NEW m \in Nat, m \in S
      PROVE  m + 1 \in S
  <2>1. PICK f : Step(f, m)
    BY <1>2
  <2> DEFINE h == [g \in 0 .. m + 1 |-> IF g <= m THEN f[g] ELSE ReadStage(f[m], file)]
  <2>2. ASSUME NEW g \in 0 .. m + 1
        PROVE  h[g] = IF g = 0 THEN r ELSE ReadStage(h[g - 1], file)
    <3>1. CASE g = m + 1
      BY <3>1
    <3>2. CASE g \in 0 .. m
      <4>1. h[g] = f[g] /\ (g # 0 => g - 1 \in 0 .. m /\ h[g - 1] = f[g - 1])
        BY <3>2
      <4>2. f[g] = IF g = 0 THEN r ELSE ReadStage(f[g - 1], file)
        BY <2>1, <3>2
      <4> QED
        BY <4>1, <4>2
    <3> QED
      BY <3>1, <3>2
  <2>3. h = [g \in 0 .. m + 1 |-> h[g]]
    OBVIOUS
  <2> HIDE DEF h
  <2>4. Step(h, m + 1)
    BY <2>2, <2>3
  <2>5. m + 1 \in Nat
    OBVIOUS
  <2> HIDE DEF Step
  <2>6. \E e : Step(e, m + 1)
    BY <2>4
  <2> QED
    BY <2>5, <2>6
<1>3. Nat \subseteq S
  <2> HIDE DEF S
  <2> QED
    BY <1>1, <1>2, Counting
<1>4. \E f : Step(f, n)
  BY <1>3
<1>5. ReadStages(r, file) = (CHOOSE f : Step(f, n))[n]
  <2>1. ReadStages(r, file) = IF ~r.ok \/ n < 0 THEN Demand(r, FALSE)
                              ELSE (CHOOSE f : Step(f, n))[n]
    BY DEF ReadStages
  <2> HIDE DEF n
  <2>2. ~(~r.ok \/ n < 0)
    BY <1>0
  <2> QED
    BY <2>1, <2>2
<1> DEFINE h == CHOOSE f : Step(f, n)
<1>6. Step(h, n)
  BY <1>4
<1> HIDE DEF h, n
<1>7. h[0] = r /\ \A g \in 1 .. n : h[g] = ReadStage(h[g - 1], file)
  BY <1>0, <1>6
<1> QED
  BY <1>5, <1>7 DEF h, n

-----------------------------------------------------------------------------
(* The trailer of the stages.                                                *)

StageNames == {"result", "restarts", "list", "report"}

StageTable(report, g) ==
  [result |-> "result", restarts |-> report[g], list |-> [k \in 1 .. report[g] |-> k],
   report |-> [h \in 1 .. g |-> report[h]]]

LEMMA StageIsSequence ==
  ASSUME NEW report \in Seq(Nat), NEW g \in 1 .. Len(report)
  PROVE  LET D == [k \in 1 .. report[g] |-> F("count", k)]
             C == <<F("result", "result"), F("count", report[g])>>
         IN  /\ StageRecords(report)[g] = C \o D
             /\ IsSequence(C) /\ IsSequence(D) /\ IsSequence(StageRecords(report)[g])
             /\ Run(D, report[g])
<1> DEFINE D == [k \in 1 .. report[g] |-> F("count", k)]
           C == <<F("result", "result"), F("count", report[g])>>
<1>1. StageRecords(report)[g] = C \o D
  BY DEF StageRecords
<1>2. report[g] \in Nat
  OBVIOUS
<1>3. DOMAIN D = 1 .. report[g] /\ Run(D, report[g])
  BY DEF Run
<1>4. IsSequence(D)
  <2> HIDE DEF D
  <2> QED
    BY <1>2, <1>3, Mapped DEF Run
<1>5. IsSequence(C)
  BY ShortSequences
<1> HIDE DEF C, D
<1>6. IsSequence(C \o D)
  BY <1>4, <1>5, Joined
<1> QED
  BY <1>1, <1>3, <1>4, <1>5, <1>6 DEF C, D

LEMMA Lengthened ==
  ASSUME NEW report \in Seq(Nat), NEW g \in 1 .. Len(report)
  PROVE  Append([h \in 1 .. g - 1 |-> report[h]], report[g]) = [h \in 1 .. g |-> report[h]]
<1> DEFINE a == [h \in 1 .. g - 1 |-> report[h]]
           b == [h \in 1 .. g |-> report[h]]
           c == Append(a, report[g])
<1>1. a \in Seq(Nat) /\ Len(a) = g - 1
  OBVIOUS
<1>2. \A h \in 1 .. g - 1 : a[h] = report[h]
  OBVIOUS
<1> HIDE DEF a
<1>3. c \in Seq(Nat) /\ Len(c) = g /\ DOMAIN c = 1 .. g
  BY <1>1
<1>4. \A h \in 1 .. g : c[h] = report[h]
  BY <1>1, <1>2
<1> HIDE DEF c
<1>5. c = [h \in 1 .. g |-> c[h]]
  BY <1>3
<1>6. c = b
  BY <1>4, <1>5
<1> QED
  BY <1>6 DEF a, c

LEMMA StageReads ==
  ASSUME NEW m, Reader(m), NEW file, Len(file) \in Nat, NEW report \in Seq(Nat),
         NEW g \in 1 .. Len(report),
         m.ok => Got(m, "report", <<>>) = [h \in 1 .. g - 1 |-> report[h]]
  PROVE  Reads(m, ReadStage(m, file), file, StageRecords(report)[g], StageNames,
               StageTable(report, g))
<1> DEFINE a == Take(m, file, <<<<"result", "result">>, <<"count", "restarts">>>>)
           b == TakeMany(a, file, "count", Got(a, "restarts", -1), "list")
           t == ReadStage(m, file)
           C == <<F("result", "result"), F("count", report[g])>>
           D == [k \in 1 .. report[g] |-> F("count", k)]
           table == StageTable(report, g)
           values == [k \in 1 .. report[g] |-> k]
           whole == [h \in 1 .. g |-> report[h]]
           more == [report |-> Append(Got(b, "report", <<>>), Got(b, "restarts", 0))]
<1>1. t = [b EXCEPT !.got = Over(more, @)]
  BY DEF ReadStage
<1>2. /\ StageRecords(report)[g] = C \o D
      /\ IsSequence(C) /\ IsSequence(D) /\ Run(D, report[g])
  BY StageIsSequence
<1>3. /\ table["result"] = "result" /\ table["restarts"] = report[g]
      /\ table["list"] = values /\ table["report"] = whole
  BY DEF StageTable
<1>4. report[g] \in Nat
  OBVIOUS
<1>5. Run(values, report[g]) /\ \A k \in 1 .. report[g] : D[k] = F("count", values[k])
  BY DEF Run
<1>6. DOMAIN more = {"report"}
      /\ more["report"] = Append(Got(b, "report", <<>>), Got(b, "restarts", 0))
  OBVIOUS
<1>7. Append([h \in 1 .. g - 1 |-> report[h]], report[g]) = whole
  BY Lengthened
<1> HIDE DEF a, b, t, C, D, table, values, whole, more
<1>8. Reads(m, a, file, C, {"result", "restarts"}, table)
  BY <1>3, TwoReads DEF a, C
<1>9. ASSUME Known(m, a, file, {"result", "restarts"}, table)
      PROVE  Reads(a, b, file, D, {"list"}, table)
  <2>1. Reader(a)
    BY <1>9 DEF Known
  <2>2. CASE a.ok
    <3>1. b = TakeMany(a, file, "count", report[g], "list")
      BY <1>3, <1>9, <2>2 DEF b, Known, Got
    <3> QED
      BY <1>2, <1>3, <1>4, <1>5, <2>1, <3>1, ManyReads
  <2>3. CASE ~a.ok
    <3>1. Reader(b) /\ ~b.ok
      BY <2>1, <2>3, FailsOn DEF b
    <3> QED
      BY <2>3, <3>1 DEF Reads, Fills
  <2> QED
    BY <2>2, <2>3
<1>10. Reads(m, b, file, C \o D, {"result", "restarts"} \cup {"list"}, table)
  BY <1>2, <1>8, <1>9, Then
<1> SUFFICES ASSUME m.ok => Ahead(file, m.at, StageRecords(report)[g])
             PROVE  Fills(m, t, file, Len(StageRecords(report)[g]), StageNames, table)
  BY DEF Reads, t, table
<1>11. Fills(m, b, file, Len(C \o D), {"result", "restarts", "list"}, table)
  <2>1. {"result", "restarts"} \cup {"list"} = {"result", "restarts", "list"}
    OBVIOUS
  <2> QED
    BY <1>2, <1>10, <2>1 DEF Reads
<1>12. Reader(b)
  BY <1>11 DEF Fills
<1>13. /\ Reader(t) /\ t.ok = b.ok /\ t.at = b.at /\ t.got = Over(more, b.got)
  <2>1. b = [ok |-> b.ok, at |-> b.at, got |-> b.got] /\ b.ok \in BOOLEAN /\ b.at \in Nat
    BY <1>12 DEF Reader
  <2>2. t = [ok |-> b.ok, at |-> b.at, got |-> Over(more, b.got)]
    BY <1>1, <2>1
  <2>3. t.ok = b.ok /\ t.at = b.at /\ t.got = Over(more, b.got)
    BY <2>2
  <2> QED
    BY <2>1, <2>2, <2>3 DEF Reader
<1>14. ASSUME b.ok
       PROVE  /\ DOMAIN t.got = StageNames \cup DOMAIN m.got
              /\ \A x \in StageNames : t.got[x] = table[x]
              /\ \A x \in DOMAIN m.got \ StageNames : t.got[x] = m.got[x]
  <2>1. /\ DOMAIN b.got = {"result", "restarts", "list"} \cup DOMAIN m.got
        /\ \A x \in {"result", "restarts", "list"} : b.got[x] = table[x]
        /\ \A x \in DOMAIN m.got \ {"result", "restarts", "list"} : b.got[x] = m.got[x]
        /\ m.ok
    BY <1>11, <1>14 DEF Fills
  <2>2. Got(b, "report", <<>>) = Got(m, "report", <<>>)
    BY <2>1 DEF Got
  <2>3. Got(b, "restarts", 0) = report[g]
    BY <1>3, <2>1 DEF Got
  <2>4. more["report"] = whole
    BY <1>6, <1>7, <2>1, <2>2, <2>3
  <2>5. /\ DOMAIN t.got = {"report"} \cup DOMAIN b.got
        /\ t.got["report"] = whole
        /\ \A x \in DOMAIN b.got \ {"report"} : t.got[x] = b.got[x]
    <3>1. /\ DOMAIN Over(more, b.got) = DOMAIN more \cup DOMAIN b.got
          /\ \A x \in DOMAIN more : Over(more, b.got)[x] = more[x]
          /\ \A x \in DOMAIN b.got \ DOMAIN more : Over(more, b.got)[x] = b.got[x]
      BY ONLY Overlaid
    <3> QED
      BY <1>6, <1>13, <2>4, <3>1
  <2> QED
    BY <1>3, <2>1, <2>5 DEF StageNames
<1> QED
  BY <1>2, <1>11, <1>13, <1>14 DEF Fills

(* What is read again, with more.                                            *)
LEMMA FillsAgain ==
  ASSUME NEW r, Reader(r), NEW s, NEW t, NEW file, Len(file) \in Nat,
         NEW m \in Nat, NEW n \in Nat, NEW A, NEW B, A \subseteq B, NEW first, NEW table,
         Fills(r, s, file, m, A, first), Fills(s, t, file, n, B, table)
  PROVE  Fills(r, t, file, m + n, B, table)
<1>1. r.at \in Nat
  BY DEF Reader
<1>2. /\ Reader(s) /\ (s.ok <=> r.ok /\ r.at + m <= Len(file))
      /\ s.ok => /\ s.at = r.at + m
                 /\ DOMAIN s.got = A \cup DOMAIN r.got
                 /\ \A x \in DOMAIN r.got \ A : s.got[x] = r.got[x]
  BY DEF Fills
<1>3. /\ Reader(t) /\ (t.ok <=> s.ok /\ s.at + n <= Len(file))
      /\ t.ok => /\ t.at = s.at + n
                 /\ DOMAIN t.got = B \cup DOMAIN s.got
                 /\ \A x \in B : t.got[x] = table[x]
                 /\ \A x \in DOMAIN s.got \ B : t.got[x] = s.got[x]
  BY DEF Fills
<1>4. t.ok <=> r.ok /\ r.at + (m + n) <= Len(file)
  BY <1>1, <1>2, <1>3
<1>5. t.ok => t.at = r.at + (m + n)
  BY <1>1, <1>2, <1>3
<1>6. t.ok => /\ DOMAIN t.got = B \cup DOMAIN r.got
              /\ \A x \in DOMAIN r.got \ B : t.got[x] = r.got[x]
  BY <1>2, <1>3
<1> QED
  BY <1>3, <1>4, <1>5, <1>6 DEF Fills

(* The restarts of every stage end up in the report, as those of that stage. *)
LEMMA StagesReads ==
  ASSUME NEW r, Reader(r), NEW file, Len(file) \in Nat, r.ok => r.at <= Len(file),
         NEW report \in Seq(Nat), report # <<>>,
         r.ok => Got(r, "grids", -1) = Len(report), r.ok => "report" \notin DOMAIN r.got,
         NEW table, \A x \in StageNames : table[x] = StageTable(report, Len(report))[x]
  PROVE  /\ Reads(r, ReadStages(r, file), file, Concatenated(StageRecords(report)),
                  StageNames, table)
         /\ IsSequence(Concatenated(StageRecords(report)))
<1> DEFINE N == Len(report)
           records == StageRecords(report)
<1>1. N \in Nat \ {0} /\ Len(records) = N
  BY DEF StageRecords
<1>2. PICK u : /\ u[0] = <<>>
               /\ \A n \in 1 .. Len(records) : u[n] = u[n - 1] \o records[n]
               /\ Concatenated(records) = u[Len(records)]
  BY <1>1, ConcatenatedIs
<1>3. \A g \in 1 .. N : IsSequence(records[g])
  BY StageIsSequence
<1> HIDE DEF N, records
<1>4. \A g \in Nat : g <= N => IsSequence(u[g])
  <2> DEFINE S == {g \in Nat : g <= N => IsSequence(u[g])}
  <2>1. 0 \in S
    BY <1>2, ShortSequences
  <2>2. ASSUME NEW g \in Nat, g \in S
        PROVE  g + 1 \in S
    <3>1. CASE g + 1 <= N
      <4>1. g + 1 \in 1 .. N /\ g <= N /\ (g + 1) - 1 = g
        BY <1>1, <3>1
      <4>2. IsSequence(u[g]) /\ IsSequence(records[g + 1]) /\ u[g + 1] = u[g] \o records[g + 1]
        BY <1>1, <1>2, <1>3, <2>2, <4>1
      <4>3. IsSequence(u[g + 1])
        BY <4>2, Joined
      <4> QED
        BY <4>3
    <3>2. CASE ~(g + 1 <= N)
      BY <3>2
    <3> QED
      BY <3>1, <3>2
  <2>3. Nat \subseteq S
    <3> HIDE DEF S
    <3> QED
      BY <2>1, <2>2, Counting
  <2> QED
    BY <2>3
<1>5. IsSequence(u[N])
  BY <1>1, <1>4
<1> SUFFICES ASSUME r.ok => Ahead(file, r.at, u[N])
             PROVE  Fills(r, ReadStages(r, file), file, Len(u[N]), StageNames, table)
  BY <1>1, <1>2, <1>5 DEF Reads, records
<1>6. CASE ~r.ok
  <2>1. ReadStages(r, file) = Demand(r, FALSE)
    BY <1>6 DEF ReadStages
  <2>2. Reader(Demand(r, FALSE)) /\ ~Demand(r, FALSE).ok
    BY Demanded
  <2> QED
    BY <1>6, <2>1, <2>2 DEF Fills
<1>7. CASE r.ok
  <2>1. Got(r, "grids", -1) = N
    BY <1>7 DEF N
  <2> DEFINE G == Got(r, "grids", -1)
  <2>a. \E f : /\ f[0] = r
               /\ \A g \in 1 .. G : f[g] = ReadStage(f[g - 1], file)
               /\ ReadStages(r, file) = f[G]
    <3>1. Got(r, "grids", -1) \in Nat
      BY <1>1, <2>1
    <3> QED
      BY <1>7, <3>1, StagesAreRead
  <2> HIDE DEF G
  <2>2. PICK f : /\ f[0] = r
                 /\ \A g \in 1 .. N : f[g] = ReadStage(f[g - 1], file)
                 /\ ReadStages(r, file) = f[N]
    <3>1. G = N
      BY <2>1 DEF G
    <3> QED
      BY <2>a, <3>1
  <2> DEFINE Names(g) == IF g = 0 THEN {} ELSE StageNames
             Done(g) == Ahead(file, r.at, u[g]) =>
                          Fills(r, f[g], file, Len(u[g]), Names(g), StageTable(report, g))
             S == {g \in Nat : g <= N => Done(g)}
  <2>3. 0 \in S
    <3>1. Fills(r, r, file, 0, {}, StageTable(report, 0))
      BY <1>7 DEF Fills, Reader
    <3>2. Len(u[0]) = 0
      BY <1>2, ShortSequences
    <3> QED
      BY <2>2, <3>1, <3>2
  <2>4. ASSUME NEW g \in Nat, g \in S
        PROVE  g + 1 \in S
    <3>1. CASE g + 1 <= N
      <4>1. g + 1 \in 1 .. N /\ g <= N /\ (g + 1) - 1 = g /\ g + 1 # 0
        BY <1>1, <3>1
      <4>2. /\ IsSequence(u[g]) /\ IsSequence(records[g + 1])
            /\ u[g + 1] = u[g] \o records[g + 1] /\ f[g + 1] = ReadStage(f[g], file)
        BY <1>1, <1>2, <1>3, <1>4, <2>2, <4>1
      <4>3. /\ Len(u[g]) \in Nat /\ Len(records[g + 1]) \in Nat
            /\ Len(u[g + 1]) = Len(u[g]) + Len(records[g + 1])
        BY <4>2, Joined
      <4>4. ASSUME Ahead(file, r.at, u[g + 1])
            PROVE  Fills(r, f[g + 1], file, Len(u[g + 1]), StageNames,
                         StageTable(report, g + 1))
        <5>1. r.at \in Nat
          BY DEF Reader
        <5>2. Ahead(file, r.at, u[g]) /\ Ahead(file, r.at + Len(u[g]), records[g + 1])
          BY <4>2, <4>4, <5>1, AheadSplits
        <5>3. Fills(r, f[g], file, Len(u[g]), Names(g), StageTable(report, g))
          BY <2>4, <4>1, <5>2
        <5> DEFINE m == f[g]
        <5> HIDE DEF Names, m
        <5>4. /\ Reader(m)
              /\ m.ok => /\ m.at = r.at + Len(u[g])
                         /\ DOMAIN m.got = Names(g) \cup DOMAIN r.got
                         /\ \A x \in Names(g) : m.got[x] = StageTable(report, g)[x]
          BY <5>3 DEF Fills, m
        <5>5. m.ok => Got(m, "report", <<>>) = [h \in 1 .. g |-> report[h]]
          <6>1. CASE g = 0
            <7>1. Names(g) = {}
              BY <6>1 DEF Names
            <7>2. m.ok => Got(m, "report", <<>>) = <<>>
              BY <1>7, <5>4, <7>1 DEF Got
            <7>3. [h \in 1 .. g |-> report[h]] = <<>>
              BY <6>1
            <7> QED
              BY <7>2, <7>3
          <6>2. CASE g # 0
            <7>1. "report" \in Names(g)
              BY <6>2 DEF Names, StageNames
            <7>2. StageTable(report, g)["report"] = [h \in 1 .. g |-> report[h]]
              BY DEF StageTable
            <7> QED
              BY <5>4, <7>1, <7>2 DEF Got
          <6> QED
            BY <6>1, <6>2
        <5>6. m.ok => Got(m, "report", <<>>) = [h \in 1 .. (g + 1) - 1 |-> report[h]]
          BY <4>1, <5>5
        <5>7. Reads(m, ReadStage(m, file), file, records[g + 1], StageNames,
                    StageTable(report, g + 1))
          BY <4>1, <5>4, <5>6, StageReads DEF N, records
        <5>8. Fills(m, f[g + 1], file, Len(records[g + 1]), StageNames,
                    StageTable(report, g + 1))
          BY <4>2, <5>2, <5>4, <5>7 DEF Reads, m
        <5>9. Names(g) \subseteq StageNames
          BY DEF Names
        <5>10. Fills(r, m, file, Len(u[g]), Names(g), StageTable(report, g))
          BY <5>3 DEF m
        <5> DEFINE k == Len(u[g])
                   n == Len(records[g + 1])
                   first == StageTable(report, g)
                   last == StageTable(report, g + 1)
                   t == f[g + 1]
                   A == Names(g)
        <5>11. /\ k \in Nat /\ n \in Nat /\ A \subseteq StageNames
               /\ Fills(r, m, file, k, A, first) /\ Fills(m, t, file, n, StageNames, last)
          BY <4>3, <5>8, <5>9, <5>10
        <5> HIDE DEF k, n, first, last, t, A
        <5>12. Fills(r, t, file, k + n, StageNames, last)
          BY <5>11, FillsAgain
        <5> QED
          BY <4>3, <5>12 DEF k, n, last, t
      <4> QED
        BY <4>1, <4>4
    <3>2. CASE ~(g + 1 <= N)
      BY <3>2
    <3> QED
      BY <3>1, <3>2
  <2>5. Nat \subseteq S
    <3> HIDE DEF S
    <3> QED
      BY <2>3, <2>4, Counting
  <2>6. Done(N)
    BY <1>1, <2>5
  <2>7. Fills(r, f[N], file, Len(u[N]), StageNames, StageTable(report, N))
    BY <1>1, <1>7, <2>6
  <2> QED
    BY <2>2, <2>7 DEF Fills, N
<1> QED
  BY <1>6, <1>7

-----------------------------------------------------------------------------
(* The versioned binary.                                                     *)
BinaryHeader == <<<<"magic", "magic">>, <<"count", "version">>, <<"count", "ns">>,
                  <<"count", "modes">>>>
BinaryNames == {"magic", "version", "ns", "modes"}

LEMMA FourFields ==
  \A a, b, c, d :
    /\ IsSequence(<<a, b, c, d>>) /\ Len(<<a, b, c, d>>) = 4 /\ DOMAIN <<a, b, c, d>> = 1 .. 4
    /\ <<a, b, c, d>>[1] = a /\ <<a, b, c, d>>[2] = b
    /\ <<a, b, c, d>>[3] = c /\ <<a, b, c, d>>[4] = d
<1> TAKE a, b, c, d
<1>1. <<a, b, c, d>> \in Seq({a, b, c, d})
  OBVIOUS
<1>2. IsSequence(<<a, b, c, d>>)
  BY <1>1 DEF IsSequence
<1> QED
  BY <1>2

LEMMA BinaryHeaderReads ==
  ASSUME NEW r, Reader(r), NEW file, Len(file) \in Nat, NEW table
  PROVE  LET s == <<F("magic", table["magic"]), F("count", table["version"]),
                    F("count", table["ns"]), F("count", table["modes"])>>
         IN  /\ Reads(r, Take(r, file, BinaryHeader), file, s, BinaryNames, table)
             /\ IsSequence(s) /\ Len(BinaryHeader) = 4
<1> DEFINE s == <<F("magic", table["magic"]), F("count", table["version"]),
                  F("count", table["ns"]), F("count", table["modes"])>>
<1>0. /\ IsSequence(BinaryHeader) /\ Len(BinaryHeader) = 4 /\ DOMAIN BinaryHeader = 1 .. 4
      /\ BinaryHeader[1] = <<"magic", "magic">> /\ BinaryHeader[2] = <<"count", "version">>
      /\ BinaryHeader[3] = <<"count", "ns">> /\ BinaryHeader[4] = <<"count", "modes">>
  BY FourFields DEF BinaryHeader
<1>1. /\ BinaryHeader[1][2] = "magic" /\ BinaryHeader[2][2] = "version"
      /\ BinaryHeader[3][2] = "ns" /\ BinaryHeader[4][2] = "modes"
      /\ BinaryHeader[1][1] = "magic" /\ BinaryHeader[2][1] = "count"
      /\ BinaryHeader[3][1] = "count" /\ BinaryHeader[4][1] = "count"
  BY <1>0
<1>2. /\ IsSequence(s) /\ Len(s) = 4
      /\ s[1] = F("magic", table["magic"]) /\ s[2] = F("count", table["version"])
      /\ s[3] = F("count", table["ns"]) /\ s[4] = F("count", table["modes"])
  BY FourFields
<1> HIDE DEF s
<1>3. 1 .. 4 = {1, 2, 3, 4}
  OBVIOUS
<1>4. {BinaryHeader[k][2] : k \in 1 .. Len(BinaryHeader)} = BinaryNames
  BY <1>0, <1>1, <1>3 DEF BinaryNames
<1>5. Distinct(BinaryHeader)
      /\ \A k \in 1 .. Len(BinaryHeader) :
           s[k] = F(BinaryHeader[k][1], table[BinaryHeader[k][2]])
  BY <1>0, <1>1, <1>2, <1>3 DEF Distinct
<1>6. Reads(r, Take(r, file, BinaryHeader), file, s,
            {BinaryHeader[k][2] : k \in 1 .. Len(BinaryHeader)}, table)
  BY <1>0, <1>2, <1>5, TakeReads
<1> QED
  BY <1>0, <1>2, <1>4, <1>6 DEF s

BinaryState(s, layout) ==
  <<F("magic", "CUMES001"), F("count", layout.version), F("count", s.ns),
    F("count", s.modes)>>
  \o Optional(layout.count, <<F("count", Components(s.lasym))>>)
  \o Families(s)

BinaryStateNames(layout) ==
  BinaryNames \cup (IF layout.count THEN {"components"} ELSE {}) \cup {"families"}

HoldsBinary(table, s, layout) ==
  HoldsState(table, s) /\ table["magic"] = "CUMES001" /\ table["version"] = layout.version

(* The reader behind the state of a binary result.                           *)
BinaryStateReader(file) ==
  LET h == Take(Start, file, BinaryHeader)
      v == Got(h, "version", 0)
      i == Demand(h, Got(h, "magic", "") = "CUMES001" /\ v \in 1 .. 10)
      c == TakeIf(v >= 9, i, file, <<<<"count", "components">>>>)
  IN  ReadFamilies(c, file)

(* The state of a binary result.                                             *)
LEMMA BinaryStateReads ==
  ASSUME NEW file, Len(file) \in Nat, NEW s, StateOk(s),
         NEW layout, BinaryWellFormed(layout), s.lasym => layout.count,
         NEW table, HoldsBinary(table, s, layout)
  PROVE  /\ Reads(Start, BinaryStateReader(file), file, BinaryState(s, layout),
                  BinaryStateNames(layout), table)
         /\ IsSequence(BinaryState(s, layout))
<1> DEFINE h == Take(Start, file, BinaryHeader)
           v == Got(h, "version", 0)
           checked == Got(h, "magic", "") = "CUMES001" /\ v \in 1 .. 10
           i == Demand(h, checked)
           c == TakeIf(v >= 9, i, file, <<<<"count", "components">>>>)
           q == ReadFamilies(c, file)
           A == <<F("magic", "CUMES001"), F("count", layout.version), F("count", s.ns),
                  F("count", s.modes)>>
           B == Optional(layout.count, <<F("count", Components(s.lasym))>>)
           C == Families(s)
           NB == IF layout.count THEN {"components"} ELSE {}
<1>1. BinaryStateReader(file) = q /\ BinaryState(s, layout) = (A \o B) \o C
      /\ BinaryStateNames(layout) = (BinaryNames \cup NB) \cup {"families"}
  BY DEF BinaryStateReader, BinaryState, BinaryStateNames
<1>2. /\ layout.count \in BOOLEAN /\ layout.version \in 1 .. 10
      /\ layout.count <=> layout.version >= 9
  BY DEF BinaryWellFormed
<1>3. HoldsState(table, s)
  BY DEF HoldsBinary
<1>4. Reads(Start, h, file, A, BinaryNames, table) /\ IsSequence(A)
  <2>1. A = <<F("magic", table["magic"]), F("count", table["version"]),
              F("count", table["ns"]), F("count", table["modes"])>>
    BY DEF HoldsBinary, HoldsState
  <2> HIDE DEF A
  <2> QED
    BY <2>1, StartIsReader, BinaryHeaderReads
<1>5. IsSequence(B)
  BY ShortSequences, OptionalSequence
<1> HIDE DEF h, v, i, c, q, A, B, C, NB
<1>6. Reads(Start, c, file, A \o B, BinaryNames \cup NB, table)
  <2>1. ASSUME Known(Start, h, file, BinaryNames, table)
        PROVE  Reads(h, c, file, B, NB, table)
    <3>1. Reader(h) /\ (h.ok => h.at <= Len(file))
      BY <2>1 DEF Known
    <3>2. h.ok => v = layout.version /\ checked
      BY <1>2, <2>1 DEF Known, BinaryNames, Got, HoldsBinary, v
    <3>3. checked \in BOOLEAN
      OBVIOUS
    <3> HIDE DEF checked
    <3>4. i = h
      BY <3>1, <3>2, <3>3, DemandHolds DEF i
    <3>5. CASE h.ok
      <4>1. c = TakeIf(layout.count, h, file, <<<<"count", "components">>>>)
        BY <1>2, <3>2, <3>4, <3>5 DEF c, TakeIf
      <4>2. layout.count => Reads(h, c, file, <<F("count", Components(s.lasym))>>,
                                  {"components"}, table)
        BY <1>3, <3>1, <4>1, OneReads DEF TakeIf, HoldsState
      <4>3. ~layout.count => c = h
        BY <4>1 DEF TakeIf
      <4> QED
        BY <1>2, <3>1, <4>2, <4>3, May DEF B, NB
    <3>6. CASE ~h.ok
      <4>1. (v >= 9) \in BOOLEAN
        OBVIOUS
      <4>2. Reader(c) /\ ~c.ok
        BY <3>1, <3>4, <3>6, <4>1, FailsOn DEF c
      <4> QED
        BY <3>6, <4>2 DEF Reads, Fills
    <3> QED
      BY <3>5, <3>6
  <2> QED
    BY <1>4, <1>5, <2>1, StartIsReader, Then
<1>7. Reads(Start, q, file, (A \o B) \o C, (BinaryNames \cup NB) \cup {"families"}, table)
      /\ IsSequence((A \o B) \o C)
  <2>1. ASSUME Known(Start, c, file, BinaryNames \cup NB, table)
        PROVE  Reads(c, q, file, C, {"families"}, table)
    <3>1. Reader(c)
      BY <2>1 DEF Known
    <3>2. ASSUME c.ok
          PROVE  /\ Got(c, "components", 6) = Components(s.lasym)
                 /\ Got(c, "ns", 0) = s.ns /\ Got(c, "modes", 0) = s.modes
      <4>1. /\ DOMAIN c.got = (BinaryNames \cup NB) \cup DOMAIN Start.got
            /\ \A x \in BinaryNames \cup NB : c.got[x] = table[x]
        BY <2>1, <3>2 DEF Known
      <4>2. Got(c, "ns", 0) = s.ns /\ Got(c, "modes", 0) = s.modes
        BY <1>3, <4>1 DEF Got, BinaryNames, HoldsState
      <4>3. CASE layout.count
        BY <1>3, <4>1, <4>2, <4>3 DEF Got, NB, HoldsState
      <4>4. CASE ~layout.count
        <5>1. "components" \notin DOMAIN c.got
          BY <4>1, <4>4, StartIsReader DEF NB, BinaryNames
        <5>2. Components(s.lasym) = 6
          BY <4>4 DEF Components, StateOk
        <5> QED
          BY <4>2, <5>1, <5>2 DEF Got
      <4> QED
        BY <4>3, <4>4
    <3> QED
      BY <1>3, <3>1, <3>2, FamiliesReads DEF q, C
  <2>2. IsSequence(C)
    BY FamiliesAreSequence DEF C
  <2>3. IsSequence(A \o B) /\ IsSequence((A \o B) \o C)
    BY <1>4, <1>5, <2>2, Joined
  <2> QED
    BY <1>6, <2>1, <2>2, <2>3, StartIsReader, Then
<1> QED
  BY <1>1, <1>7

LEMMA BinaryStateReaderIs ==
  ASSUME NEW file, Len(file) \in Nat
  PROVE  LET h == Take(Start, file, BinaryHeader)
         IN  /\ Reader(h) /\ Reader(BinaryStateReader(file))
             /\ BinaryStateReader(file).ok => h.ok
<1> DEFINE h == Take(Start, file, BinaryHeader)
           v == Got(h, "version", 0)
           checked == Got(h, "magic", "") = "CUMES001" /\ v \in 1 .. 10
           i == Demand(h, checked)
           items == <<<<"count", "components">>>>
           c == TakeIf(v >= 9, i, file, items)
           n == Got(c, "components", 6)
           fits == c.ok /\ n \in {6, 12} /\ Got(c, "ns", 0) >= 1 /\ Got(c, "modes", 0) >= 1
           d == Demand(c, fits)
<1>1. checked \in BOOLEAN /\ fits \in BOOLEAN /\ (v >= 9) \in BOOLEAN
  OBVIOUS
<1>a. fits => n \in {6, 12}
  OBVIOUS
<1>b. Len(items) = 1
  OBVIOUS
<1>2. BinaryStateReader(file) = TakeMany(d, file, "family", n, "families")
  BY DEF BinaryStateReader, ReadFamilies
<1> HIDE DEF h, v, checked, i, items, c, n, fits, d
<1>3. Reader(h)
  <2>1. Len(BinaryHeader) = 4
    BY FourFields DEF BinaryHeader
  <2>2. Len(BinaryHeader) \in Nat
    BY <2>1
  <2> QED
    BY <2>2, StartIsReader, TakesOn DEF h
<1>4. Reader(i) /\ i.ok = (h.ok /\ checked)
  BY <1>1, <1>3, Demanded DEF i
<1>5. Reader(c) /\ (~i.ok => ~c.ok)
  <2>1. Len(items) \in Nat
    BY <1>b
  <2>2. Reader(c)
    BY <1>4, <2>1, TakesOn DEF c
  <2>3. ~i.ok => ~c.ok
    BY <1>4, FailsOn DEF c
  <2> QED
    BY <2>2, <2>3
<1>6. Reader(d) /\ d.ok = (c.ok /\ fits)
  BY <1>1, <1>5, Demanded DEF d
<1>7. Reader(BinaryStateReader(file)) /\ (~d.ok => ~BinaryStateReader(file).ok)
  <2>1. d.ok => n \in Nat
    <3>1. \A m : m \in {6, 12} => m \in Nat
      OBVIOUS
    <3> QED
      BY <1>a, <1>6, <3>1
  <2> QED
    BY <1>2, <1>6, <2>1, TakesManyOn, FailsOn
<1> QED
  BY <1>1, <1>3, <1>4, <1>5, <1>6, <1>7 DEF h

(* The version a reader acts upon is the one that was written.               *)
LEMMA BinaryVersionRead ==
  ASSUME NEW file, Len(file) \in Nat, NEW s, StateOk(s),
         NEW layout, BinaryWellFormed(layout),
         NEW table, HoldsBinary(table, s, layout),
         Ahead(file, 0, BinaryState(s, layout))
  PROVE  BinaryStateReader(file).ok =>
           Got(Take(Start, file, BinaryHeader), "version", 0) = layout.version
<1> DEFINE h == Take(Start, file, BinaryHeader)
           A == <<F("magic", "CUMES001"), F("count", layout.version), F("count", s.ns),
                  F("count", s.modes)>>
           B == Optional(layout.count, <<F("count", Components(s.lasym))>>)
<1>1. A = <<F("magic", table["magic"]), F("count", table["version"]),
            F("count", table["ns"]), F("count", table["modes"])>>
  BY DEF HoldsBinary, HoldsState
<1>2. BinaryState(s, layout) = (A \o B) \o Families(s)
  BY DEF BinaryState
<1>3. IsSequence(A) /\ IsSequence(B) /\ IsSequence(Families(s))
  BY FourFields, ShortSequences, OptionalSequence, FamiliesAreSequence
<1>4. Ahead(file, 0, A)
  <2> HIDE DEF A, B
  <2> DEFINE D == A \o B
             E == Families(s)
  <2>1. IsSequence(D) /\ IsSequence(E) /\ Ahead(file, 0, D \o E)
    BY <1>2, <1>3, Joined
  <2> HIDE DEF D, E
  <2>2. Ahead(file, 0, D)
    BY <2>1, AheadSplits
  <2> QED
    BY <1>3, <2>2, AheadSplits DEF D
<1>5. Reads(Start, h, file, A, BinaryNames, table)
  <2> HIDE DEF A
  <2> QED
    BY <1>1, StartIsReader, BinaryHeaderReads
<1>6. BinaryStateReader(file).ok => h.ok
  BY BinaryStateReaderIs
<1> HIDE DEF h, A, B
<1>7. Fills(Start, h, file, Len(A), BinaryNames, table)
  BY <1>4, <1>5, StartIsReader DEF Reads
<1>8. h.ok => "version" \in DOMAIN h.got /\ h.got["version"] = table["version"]
  BY <1>7 DEF Fills, BinaryNames
<1> QED
  BY <1>6, <1>8 DEF h, Got, HoldsBinary

(* The result fields.                                                        *)
LEMMA DerivedReads ==
  ASSUME NEW q, Reader(q), NEW file, Len(file) \in Nat,
         NEW s, s.fields = "complete", s.ns \in Nat, s.ns >= 2,
         q.ok => "ns" \in DOMAIN q.got /\ q.got["ns"] = s.ns,
         NEW table, table["dims"] = 1, table["fields"] = s.state
  PROVE  /\ Reads(q, ReadDerived(q, file), file, DerivedFields(s), {"dims", "fields"}, table)
         /\ IsSequence(DerivedFields(s))
<1> DEFINE d == Take(q, file, <<<<"count", "dims">>>>)
           n == Got(d, "dims", 0)
           fits == n = 0 \/ (n = 1 /\ Got(d, "ns", 0) >= 2)
           e == Demand(d, fits)
           t == TakeIf(e.ok /\ n = 1, e, file, <<<<"arrays", "fields">>>>)
           A == <<F("count", 1)>>
           B == <<F("arrays", s.state)>>
<1>1. ReadDerived(q, file) = t
  BY DEF ReadDerived
<1>2. DerivedFields(s) = A \o B
  BY Pairs DEF DerivedFields
<1>3. IsSequence(A) /\ IsSequence(B)
  BY ShortSequences
<1>4. Reads(q, d, file, A, {"dims"}, table)
  BY OneReads
<1> HIDE DEF d, n, e, t, A, B
<1>5. ASSUME Known(q, d, file, {"dims"}, table)
      PROVE  Reads(d, t, file, B, {"fields"}, table)
  <2>1. Reader(d)
    BY <1>5 DEF Known
  <2>2. d.ok => n = 1 /\ fits
    <3> SUFFICES ASSUME d.ok
                 PROVE  n = 1 /\ fits
      OBVIOUS
    <3>1. /\ DOMAIN d.got = {"dims"} \cup DOMAIN q.got /\ d.got["dims"] = 1
          /\ \A x \in DOMAIN q.got \ {"dims"} : d.got[x] = q.got[x]
          /\ "ns" \in DOMAIN q.got /\ q.got["ns"] = s.ns
      BY <1>5 DEF Known
    <3>2. n = 1
      BY <3>1 DEF Got, n
    <3>3. Got(d, "ns", 0) = s.ns
      BY <3>1 DEF Got
    <3> QED
      BY <3>2, <3>3
  <2>3. fits \in BOOLEAN
    OBVIOUS
  <2> HIDE DEF fits
  <2>4. e = d
    BY <2>1, <2>2, <2>3, DemandHolds DEF e
  <2>5. CASE d.ok
    <3>1. t = Take(d, file, <<<<"arrays", "fields">>>>)
      BY <2>2, <2>4, <2>5 DEF t, TakeIf
    <3> QED
      BY <2>1, <3>1, OneReads DEF B
  <2>6. CASE ~d.ok
    <3>1. t = d
      BY <2>4, <2>6 DEF t, TakeIf
    <3> QED
      BY <2>1, <2>6, <3>1 DEF Reads, Fills
  <2> QED
    BY <2>5, <2>6
<1>6. Reads(q, t, file, A \o B, {"dims"} \cup {"fields"}, table)
  BY <1>3, <1>4, <1>5, Then
<1>7. {"dims"} \cup {"fields"} = {"dims", "fields"}
  OBVIOUS
<1> QED
  BY <1>1, <1>2, <1>3, <1>6, <1>7, Joined

LEMMA FiveFields ==
  ASSUME NEW a, NEW b, NEW c, NEW d, NEW e
  PROVE  <<a, b, c>> \o <<d, e>> = <<a, b, c, d, e>> /\ IsSequence(<<a, b, c>>)
<1> DEFINE S == {a, b, c, d, e}
           s == <<a, b, c>> \o <<d, e>>
           t == <<a, b, c, d, e>>
<1>1. <<a, b, c>> \in Seq(S) /\ <<d, e>> \in Seq(S) /\ t \in Seq(S)
  OBVIOUS
<1>2. IsSequence(<<a, b, c>>) /\ IsSequence(<<d, e>>)
  BY <1>1 DEF IsSequence
<1>3. /\ Len(<<a, b, c>>) = 3 /\ Len(<<d, e>>) = 2
      /\ <<a, b, c>>[1] = a /\ <<a, b, c>>[2] = b /\ <<a, b, c>>[3] = c
      /\ <<d, e>>[1] = d /\ <<d, e>>[2] = e
      /\ Len(t) = 5 /\ t[1] = a /\ t[2] = b /\ t[3] = c /\ t[4] = d /\ t[5] = e
  OBVIOUS
<1>4. s \in Seq(S)
  BY <1>1
<1>5. /\ Len(s) = 5 /\ \A i \in 1 .. 3 : s[i] = <<a, b, c>>[i]
      /\ \A i \in 1 .. 2 : s[3 + i] = <<d, e>>[i]
  BY <1>2, <1>3, Joined
<1> HIDE DEF s, t, S
<1>6. s[1] = a /\ s[2] = b /\ s[3] = c /\ s[4] = d /\ s[5] = e
  BY <1>3, <1>5
<1>7. s = [i \in 1 .. 5 |-> s[i]] /\ t = [i \in 1 .. 5 |-> t[i]]
  BY <1>1, <1>3, <1>4, <1>5
<1>8. \A i \in 1 .. 5 : s[i] = t[i]
  BY <1>3, <1>6
<1> QED
  BY <1>2, <1>7, <1>8 DEF s, t

(* Behind the state: what the whole run has to say.                          *)
Policy(recorded) ==
  IF recorded THEN <<"policy", "policy">> ELSE <<"scalar", "scalar">>

OutcomeFields(report, layout) ==
  <<F("status", "status"), F("count", Len(report)), F("build", "build"),
    IF layout.policy THEN F("policy", "policy") ELSE F("scalar", "scalar"),
    F("provenance", "provenance")>>

OutcomeNames(layout) ==
  {"status", "grids", "build"} \cup {Policy(layout.policy)[2], "provenance"}

OutcomeReader(d, file, recorded) ==
  Take(Take(d, file, <<<<"status", "status">>, <<"count", "grids">>, <<"build", "build">>>>),
       file, <<Policy(recorded), <<"provenance", "provenance">>>>)

(* The run report, up to its stages.                                         *)
LEMMA OutcomeReads ==
  ASSUME NEW d, Reader(d), NEW file, Len(file) \in Nat, NEW layout,
         layout.policy \in BOOLEAN, NEW report,
         NEW table, table["grids"] = Len(report),
         \A x \in {"status", "build", "policy", "scalar", "provenance"} : table[x] = x
  PROVE  /\ Reads(d, OutcomeReader(d, file, layout.policy), file,
                  OutcomeFields(report, layout), OutcomeNames(layout), table)
         /\ IsSequence(OutcomeFields(report, layout))
<1> DEFINE t == Take(d, file, <<<<"status", "status">>, <<"count", "grids">>,
                                <<"build", "build">>>>)
           u == OutcomeReader(d, file, layout.policy)
           A == <<F("status", "status"), F("count", Len(report)), F("build", "build")>>
           k == Policy(layout.policy)[2]
           B == <<F(k, k), F("provenance", "provenance")>>
<1>1. k \in {"policy", "scalar"} /\ Policy(layout.policy) = <<k, k>>
  BY DEF Policy
<1>2. u = Take(t, file, <<<<k, k>>, <<"provenance", "provenance">>>>)
  BY <1>1 DEF OutcomeReader
<1>3. OutcomeFields(report, layout) = A \o B /\ IsSequence(A) /\ IsSequence(B)
  <2>1. A \o B = <<F("status", "status"), F("count", Len(report)), F("build", "build"),
                   F(k, k), F("provenance", "provenance")>>
        /\ IsSequence(A)
    BY FiveFields
  <2>2. F(k, k) = IF layout.policy THEN F("policy", "policy") ELSE F("scalar", "scalar")
    BY DEF Policy
  <2> QED
    BY <2>1, <2>2, ShortSequences DEF OutcomeFields
<1>4. Reads(d, t, file, A, {"status", "grids", "build"}, table)
  BY ThreeReads
<1> HIDE DEF t, u, A, k
<1>5. ASSUME Known(d, t, file, {"status", "grids", "build"}, table)
      PROVE  Reads(t, u, file, B, {k, "provenance"}, table)
  <2>1. Reader(t)
    BY <1>5 DEF Known
  <2>2. table[k] = k /\ k # "provenance"
    BY <1>1
  <2> QED
    BY <1>2, <2>1, <2>2, TwoReads
<1>6. Reads(d, u, file, A \o B, {"status", "grids", "build"} \cup {k, "provenance"}, table)
  <2> HIDE DEF B
  <2> QED
    BY <1>3, <1>4, <1>5, Then
<1>7. IsSequence(OutcomeFields(report, layout))
  <2> HIDE DEF B
  <2> QED
    BY <1>3, Joined
<1> QED
  BY <1>3, <1>6, <1>7 DEF OutcomeNames, u, k

BinaryWritten(s, p, report, layout) ==
  /\ StateOk(s) /\ s.ns >= 2 /\ s.fields = "complete"
  /\ p.lasym = s.lasym /\ p.stages \in Nat /\ p.embedded \in BOOLEAN
  /\ report \in Seq(Nat) /\ report # <<>>
  /\ BinaryWellFormed(layout) /\ (s.lasym => layout.count)
  /\ layout.record = "typed" => (layout.asymmetric <=> s.lasym)

DerivedReader(q, file, v) == IF v >= 8 THEN ReadDerived(q, file) ELSE q

DerivedNames(layout) == IF layout.fields THEN {"dims", "fields"} ELSE {}

BinaryBody(s, layout) == BinaryState(s, layout) \o Optional(layout.fields, DerivedFields(s))
BinaryBodyNames(layout) == BinaryStateNames(layout) \cup DerivedNames(layout)

BinaryRun(s, report, layout) ==
  BinaryBody(s, layout) \o OutcomeFields(report, layout)
    \o Concatenated(StageRecords(report))
BinaryRunNames(layout) ==
  BinaryBodyNames(layout) \cup OutcomeNames(layout) \cup StageNames

(* No two parts of a binary result share a name.                             *)
LEMMA BinaryNamesApart ==
  ASSUME NEW layout
  PROVE  /\ BinaryRunNames(layout) \cap RecordNames = {}
         /\ BinaryBodyNames(layout) \cap (OutcomeNames(layout) \cup StageNames) = {}
         /\ "report" \notin BinaryBodyNames(layout) \cup OutcomeNames(layout)
         /\ "grids" \in OutcomeNames(layout)
         /\ {"ns", "modes", "families"} \subseteq BinaryBodyNames(layout)
         /\ "components" \in BinaryRunNames(layout) <=> layout.count
BY DEF BinaryRunNames, RecordNames, BinaryBodyNames, OutcomeNames, StageNames, Policy,
       BinaryStateNames, BinaryNames, DerivedNames

(* A binary result is its run, then its record.                              *)
LEMMA BinaryFileIs ==
  ASSUME NEW s, NEW p, NEW report, NEW layout, BinaryWritten(s, p, report, layout)
  PROVE  /\ BinaryFile(s, p, report, layout)
              = BinaryRun(s, report, layout) \o InputRecord(p, layout)
         /\ IsSequence(InputRecord(p, layout))
<1>1. s.lasym = p.lasym /\ s.fields # "partial"
  BY DEF BinaryWritten
<1>2. BinaryFile(s, p, report, layout)
              = BinaryRun(s, report, layout) \o InputRecord(p, layout)
  BY <1>1 DEF BinaryFile, BinaryRun, BinaryBody, BinaryState, OutcomeFields
<1>3. TypedLayout(layout) \/ layout.record \in {"none", "json"}
  BY FlagsOfLayout DEF BinaryWritten, BinaryWellFormed
<1>4. p.stages \in Nat /\ p.embedded \in BOOLEAN /\ p.lasym \in BOOLEAN
  BY DEF BinaryWritten, StateOk
<1> QED
  BY <1>2, <1>3, <1>4, RecordIsSequence

(* The state and the derived fields.                                         *)
LEMMA BinaryBodyReads ==
  ASSUME NEW file, Len(file) \in Nat, NEW s, NEW p, NEW report, NEW layout,
         BinaryWritten(s, p, report, layout),
         NEW table, Holding(table, "CUMES001", layout.version, s, p, report),
         Ahead(file, 0, BinaryState(s, layout))
  PROVE  LET v == Got(Take(Start, file, BinaryHeader), "version", 0)
             q == BinaryStateReader(file)
             d == DerivedReader(q, file, v)
         IN  /\ Reads(Start, d, file, BinaryBody(s, layout), BinaryBodyNames(layout), table)
             /\ IsSequence(BinaryBody(s, layout)) /\ IsSequence(BinaryState(s, layout))
             /\ d.ok => v = layout.version
<1> DEFINE v == Got(Take(Start, file, BinaryHeader), "version", 0)
           q == BinaryStateReader(file)
           d == DerivedReader(q, file, v)
           A == BinaryState(s, layout)
           B == Optional(layout.fields, DerivedFields(s))
           NA == BinaryStateNames(layout)
           NB == DerivedNames(layout)
<1>1. /\ StateOk(s) /\ s.ns \in Nat /\ s.ns >= 2 /\ s.fields = "complete"
      /\ BinaryWellFormed(layout) /\ (s.lasym => layout.count)
  BY DEF BinaryWritten, StateOk
<1>2. HoldsBinary(table, s, layout) /\ table["dims"] = 1 /\ table["fields"] = s.state
      /\ table["ns"] = s.ns
  BY DEF Holding, HoldsBinary, HoldsState
<1>3. layout.fields \in BOOLEAN /\ (layout.fields <=> layout.version >= 8)
      /\ layout.version \in 1 .. 10
  BY <1>1 DEF BinaryWellFormed
<1>4. Reads(Start, q, file, A, NA, table) /\ IsSequence(A)
  BY <1>1, <1>2, BinaryStateReads
<1>5. q.ok => v = layout.version
  BY <1>1, <1>2, BinaryVersionRead
<1>6. Reader(q)
  BY BinaryStateReaderIs
<1>7. IsSequence(DerivedFields(s)) /\ IsSequence(B)
  <2>1. DerivedFields(s) = <<F("count", 1), F("arrays", s.state)>>
    BY <1>1 DEF DerivedFields
  <2> QED
    BY <2>1, ShortSequences, OptionalSequence
<1>a. BinaryBody(s, layout) = A \o B /\ BinaryBodyNames(layout) = NA \cup NB
  BY DEF BinaryBody, BinaryBodyNames
<1>b. "ns" \in NA
  BY DEF BinaryStateNames, BinaryNames
<1>c. d = IF v >= 8 THEN ReadDerived(q, file) ELSE q
  BY DEF DerivedReader
<1>d. B = Optional(layout.fields, DerivedFields(s))
      /\ NB = IF layout.fields THEN {"dims", "fields"} ELSE {}
  BY DEF DerivedNames
<1> HIDE DEF v, q, d, A, B, NA, NB
<1>8. ASSUME Known(Start, q, file, NA, table), q.ok
      PROVE  Reads(q, d, file, B, NB, table)
  <2>1. q.at <= Len(file) /\ "ns" \in DOMAIN q.got /\ q.got["ns"] = s.ns
    BY <1>2, <1>8, <1>b DEF Known
  <2>2. layout.fields => Reads(q, d, file, DerivedFields(s), {"dims", "fields"}, table)
    <3>1. Reads(q, ReadDerived(q, file), file, DerivedFields(s), {"dims", "fields"}, table)
      BY <1>1, <1>2, <1>6, <2>1, DerivedReads
    <3>2. layout.fields => d = ReadDerived(q, file)
      BY <1>3, <1>5, <1>8, <1>c
    <3> QED
      BY <3>1, <3>2
  <2>3. ~layout.fields => d = q
    BY <1>3, <1>5, <1>8, <1>c
  <2> QED
    BY <1>3, <1>6, <1>d, <2>1, <2>2, <2>3, May
<1>9. ~q.ok => Reader(d) /\ ~d.ok
  <2> SUFFICES ASSUME ~q.ok
               PROVE  Reader(d) /\ ~d.ok
    OBVIOUS
  <2> DEFINE items == <<<<"count", "dims">>>>
             k == Take(q, file, items)
             n == Got(k, "dims", 0)
             e == Demand(k, n = 0 \/ (n = 1 /\ Got(k, "ns", 0) >= 2))
             t == TakeIf(e.ok /\ n = 1, e, file, <<<<"arrays", "fields">>>>)
  <2>1. Reader(k) /\ ~k.ok
    BY <1>6, FailsOn
  <2>2. (n = 0 \/ (n = 1 /\ Got(k, "ns", 0) >= 2)) \in BOOLEAN
    OBVIOUS
  <2>3. ReadDerived(q, file) = t
    BY DEF ReadDerived
  <2> HIDE DEF k
  <2>4. Reader(e) /\ ~e.ok
    BY <2>1, <2>2, Demanded
  <2> HIDE DEF n, e
  <2>5. Reader(t) /\ ~t.ok
    BY <2>4, FailsOn
  <2> HIDE DEF t
  <2> QED
    BY <1>6, <1>c, <2>3, <2>5
<1>10. ~q.ok => Reads(q, d, file, B, NB, table)
  BY <1>9 DEF Reads, Fills
<1>11. Reads(Start, d, file, A \o B, NA \cup NB, table)
  <2>1. Known(Start, q, file, NA, table) => Reads(q, d, file, B, NB, table)
    BY <1>8, <1>10
  <2> QED
    BY <1>4, <1>7, <2>1, StartIsReader, Then
<1>12. d.ok => v = layout.version
  BY <1>5, <1>9
<1>13. IsSequence(A \o B)
  BY <1>4, <1>7, Joined
<1> QED
  BY <1>4, <1>11, <1>12, <1>13, <1>a DEF v, q, d, A

(* The report and the trailer of its stages, read.                           *)
LEMMA BinaryRunReads ==
  ASSUME NEW file, Len(file) \in Nat, NEW s, NEW p, NEW report, NEW layout,
         BinaryWritten(s, p, report, layout),
         NEW table, Holding(table, "CUMES001", layout.version, s, p, report),
         NEW d, IsSequence(BinaryBody(s, layout)),
         Reads(Start, d, file, BinaryBody(s, layout), BinaryBodyNames(layout), table)
  PROVE  LET w == ReadStages(OutcomeReader(d, file, layout.policy), file)
         IN  /\ Reads(Start, w, file, BinaryRun(s, report, layout), BinaryRunNames(layout),
                      table)
             /\ IsSequence(BinaryRun(s, report, layout))
<1> DEFINE u == OutcomeReader(d, file, layout.policy)
           w == ReadStages(u, file)
           A == BinaryBody(s, layout)
           B == OutcomeFields(report, layout)
           C == Concatenated(StageRecords(report))
           NA == BinaryBodyNames(layout)
           NB == OutcomeNames(layout)
<1>1. /\ layout.policy \in BOOLEAN /\ report \in Seq(Nat) /\ report # <<>>
  BY DEF BinaryWritten, BinaryWellFormed
<1>2. /\ table["grids"] = Len(report)
      /\ \A x \in {"status", "build", "policy", "scalar", "provenance"} : table[x] = x
  BY DEF Holding
<1>3. \A x \in StageNames : table[x] = StageTable(report, Len(report))[x]
  <2>1. report = [h \in 1 .. Len(report) |-> report[h]]
    BY <1>1
  <2>2. StageTable(report, Len(report)).report = report
    BY <2>1 DEF StageTable
  <2>3. /\ StageTable(report, Len(report)).result = "result"
        /\ StageTable(report, Len(report)).restarts = report[Len(report)]
        /\ StageTable(report, Len(report)).list = [k \in 1 .. report[Len(report)] |-> k]
    BY DEF StageTable
  <2> QED
    BY <2>2, <2>3 DEF StageNames, Holding
<1>4. IsSequence(B)
  BY <1>1, <1>2, StartIsReader, OutcomeReads
<1>5. BinaryRun(s, report, layout) = (A \o B) \o C
      /\ BinaryRunNames(layout) = (NA \cup NB) \cup StageNames
  BY DEF BinaryRun, BinaryRunNames
<1>6. "report" \notin NA \cup NB /\ "grids" \in NB
  BY BinaryNamesApart
<1>7. /\ Reads(Start, d, file, A, NA, table) /\ IsSequence(A)
  OBVIOUS
<1>8. Reader(d) => Reads(d, u, file, B, NB, table)
  BY <1>1, <1>2, OutcomeReads
<1> HIDE DEF A, B, NA, NB, u
<1>9. Reads(Start, u, file, A \o B, NA \cup NB, table)
  <2>1. Known(Start, d, file, NA, table) => Reads(d, u, file, B, NB, table)
    BY <1>8 DEF Known
  <2> QED
    BY <1>4, <1>7, <2>1, StartIsReader, Then
<1>10. ASSUME Known(Start, u, file, NA \cup NB, table)
       PROVE  Reads(u, w, file, C, StageNames, table)
  <2>1. Reader(u) /\ (u.ok => u.at <= Len(file))
    BY <1>10 DEF Known
  <2>2. u.ok => "report" \notin DOMAIN u.got /\ Got(u, "grids", -1) = Len(report)
    <3> SUFFICES ASSUME u.ok
                 PROVE  "report" \notin DOMAIN u.got /\ Got(u, "grids", -1) = Len(report)
      OBVIOUS
    <3>1. DOMAIN u.got = (NA \cup NB) \cup {} /\ \A x \in NA \cup NB : u.got[x] = table[x]
      BY <1>10, StartIsReader DEF Known
    <3> QED
      BY <1>2, <1>6, <3>1 DEF Got
  <2>3. /\ Reads(u, ReadStages(u, file), file, Concatenated(StageRecords(report)),
                 StageNames, table)
        /\ IsSequence(Concatenated(StageRecords(report)))
    BY <1>1, <1>3, <2>1, <2>2, StagesReads
  <2> QED
    BY <2>3
<1>11. IsSequence(C)
  <2>1. Len(<<>>) \in Nat
    BY ShortSequences
  <2> DEFINE x == [ok |-> FALSE, at |-> 0, got |-> <<>>]
  <2>2. Reader(x) /\ ~x.ok
    BY DEF Reader
  <2> HIDE DEF x
  <2> QED
    BY <1>1, <1>3, <2>1, <2>2, StagesReads
<1> HIDE DEF w, C
<1>12. IsSequence(A \o B)
  BY <1>4, <1>7, Joined
<1>13. Reads(Start, w, file, (A \o B) \o C, (NA \cup NB) \cup StageNames, table)
  BY <1>9, <1>10, <1>11, <1>12, StartIsReader, Then
<1>14. IsSequence((A \o B) \o C)
  BY <1>11, <1>12, Joined
<1> QED
  BY <1>5, <1>13, <1>14 DEF w, u

(* A reader that failed before the stages reads no stages.                   *)
LEMMA StagesFail ==
  ASSUME NEW d, Reader(d), ~d.ok, NEW file, NEW recorded \in BOOLEAN
  PROVE  LET w == ReadStages(OutcomeReader(d, file, recorded), file)
         IN  Reader(w) /\ ~w.ok
<1> DEFINE t == Take(d, file, <<<<"status", "status">>, <<"count", "grids">>,
                                <<"build", "build">>>>)
           u == OutcomeReader(d, file, recorded)
           w == ReadStages(u, file)
<1>1. Reader(t) /\ ~t.ok
  BY FailsOn
<1>2. u = Take(t, file, <<Policy(recorded), <<"provenance", "provenance">>>>)
  BY DEF OutcomeReader
<1> HIDE DEF t, u
<1>3. Reader(u) /\ ~u.ok
  BY <1>1, <1>2, FailsOn
<1>4. w = Demand(u, FALSE)
  BY <1>3 DEF ReadStages
<1> HIDE DEF w
<1>5. Reader(w) /\ ~w.ok
  BY <1>3, <1>4, Demanded
<1> QED
  BY <1>5 DEF u, w

(* A binary result is read as it was written, in every version.              *)
THEOREM BinaryIsRead ==
  ASSUME NEW s, NEW p, NEW report, NEW layout, BinaryWritten(s, p, report, layout),
         NEW asked \in BOOLEAN
  PROVE  LET r == ReadBinary(BinaryFile(s, p, report, layout), asked)
         IN  /\ r.ok => /\ StateIs(r, s)
                        /\ asked => ReportIs(r, report) /\ RecordIs(r, p, layout)
             /\ ~(asked /\ layout.version = 9) => r.ok
<1> DEFINE file == BinaryFile(s, p, report, layout)
           v == Got(Take(Start, file, BinaryHeader), "version", 0)
           q == BinaryStateReader(file)
           d == DerivedReader(q, file, v)
           e == Demand(d, v # 9)
           w == ReadStages(OutcomeReader(e, file, v >= 2), file)
           P == ReadRecord(w, file, BinaryFlags(v))
           r == ReadBinary(file, asked)
           A == BinaryBody(s, layout)
           B == OutcomeFields(report, layout)
           C == Concatenated(StageRecords(report))
           D == InputRecord(p, layout)
           R == BinaryRun(s, report, layout)
           S == BinaryState(s, layout)
           X == Optional(layout.fields, DerivedFields(s))
<1>1. r = IF ~asked THEN d ELSE IF v >= 3 THEN Demand(P, SymmetryAgrees(P)) ELSE w
  BY DEF ReadBinary, BinaryStateReader, DerivedReader, OutcomeReader, Policy, BinaryHeader
<1>2. file = R \o D /\ IsSequence(D)
  BY BinaryFileIs
<1>3. R = (A \o B) \o C /\ A = S \o X
  BY DEF BinaryRun, BinaryBody
<1>0. PICK table : Holding(table, "CUMES001", layout.version, s, p, report)
  BY TableExists
<1>4. /\ StateOk(s) /\ p.lasym = s.lasym /\ p.lasym \in BOOLEAN /\ s.lasym \in BOOLEAN
      /\ p.stages \in Nat /\ p.embedded \in BOOLEAN
      /\ BinaryWellFormed(layout) /\ (s.lasym => layout.count)
      /\ layout.record = "typed" => (layout.asymmetric <=> s.lasym)
      /\ s.fields = "complete"
  BY DEF BinaryWritten, StateOk
<1>5. /\ layout.version \in 1 .. 10 /\ layout.policy \in BOOLEAN
      /\ layout.policy <=> layout.version >= 2
      /\ layout.count \in BOOLEAN
      /\ layout.record = IF layout.version <= 2 THEN "none"
                         ELSE IF layout.version = 9 THEN "json" ELSE "typed"
  BY <1>4 DEF BinaryWellFormed
<1>6. HoldsState(table, s) /\ HoldsRecord(table, p) /\ table["report"] = report
  BY <1>0 DEF Holding
<1>7. IsSequence(S) /\ IsSequence(X) /\ IsSequence(B) /\ IsSequence(A)
  <2>1. IsSequence(S)
    <3>1. Len(<<>>) \in Nat
      BY ShortSequences
    <3>2. HoldsBinary(table, s, layout)
      BY <1>0 DEF Holding, HoldsBinary
    <3> QED
      BY <1>4, <3>1, <3>2, BinaryStateReads
  <2>2. IsSequence(X)
    <3>1. DerivedFields(s) = <<F("count", 1), F("arrays", s.state)>>
      BY <1>4 DEF DerivedFields
    <3> QED
      BY <3>1, ShortSequences, OptionalSequence
  <2>3. IsSequence(B)
    BY ShortSequences DEF OutcomeFields
  <2> HIDE DEF S, X, B, A
  <2> QED
    BY <1>3, <2>1, <2>2, <2>3, Joined
<1>8. IsSequence(C)
  <2>1. /\ report \in Seq(Nat) /\ report # <<>>
    BY DEF BinaryWritten
  <2>2. Len(<<>>) \in Nat
    BY ShortSequences
  <2>3. \A x \in StageNames :
          StageTable(report, Len(report))[x] = StageTable(report, Len(report))[x]
    OBVIOUS
  <2> DEFINE x == [ok |-> FALSE, at |-> 0, got |-> <<>>]
  <2>4. Reader(x) /\ ~x.ok
    BY DEF Reader
  <2> HIDE DEF x
  <2> QED
    BY <2>1, <2>2, <2>3, <2>4, StagesReads
<1> DEFINE NA == BinaryBodyNames(layout)
           NR == BinaryRunNames(layout)
           ND == Recorded(p, layout)
<1>9. /\ NR \cap RecordNames = {} /\ {"ns", "modes", "families"} \subseteq NA
      /\ NR = NA \cup OutcomeNames(layout) \cup StageNames
      /\ "components" \in NR <=> layout.count
      /\ "report" \in NR
      /\ NR \cap ND = {} /\ ND \subseteq RecordNames
  BY BinaryNamesApart DEF BinaryRunNames, StageNames, Recorded, RecordNames
<1> HIDE DEF A, B, C, D, R, S, X, file, NA, NR, ND
<1>10. IsSequence(R) /\ IsSequence(A \o B) /\ IsSequence(file)
  BY <1>2, <1>3, <1>7, <1>8, Joined
<1>11. /\ Len(file) \in Nat /\ Len(R) \in Nat /\ Len(D) \in Nat /\ Len(A) \in Nat
       /\ Len(file) = Len(R) + Len(D) /\ Len(A) <= Len(R)
  <2>1. /\ Len(A) \in Nat /\ Len(B) \in Nat /\ Len(C) \in Nat /\ Len(D) \in Nat
        /\ Len(A \o B) = Len(A) + Len(B) /\ Len(A \o B) \in Nat
        /\ Len(R) = Len(A \o B) + Len(C) /\ Len(R) \in Nat
    BY <1>2, <1>3, <1>7, <1>8, <1>10, Joined
  <2>2. Len(file) = Len(R) + Len(D) /\ Len(file) \in Nat
    BY <1>2, <1>10, Joined
  <2> QED
    BY <2>1, <2>2
<1>12. Ahead(file, 0, file)
  BY <1>11 DEF Ahead
<1>13. Ahead(file, 0, R) /\ Ahead(file, 0 + Len(R), D)
  BY <1>2, <1>10, <1>11, <1>12, AheadSplits
<1>14. Ahead(file, 0, A)
  <2>1. Ahead(file, 0, A \o B)
    BY <1>3, <1>8, <1>10, <1>11, <1>13, AheadSplits
  <2> QED
    BY <1>7, <1>11, <2>1, AheadSplits
<1>15. Ahead(file, 0, S)
  BY <1>3, <1>7, <1>11, <1>14, AheadSplits
<1>16. /\ Reads(Start, d, file, A, NA, table) /\ (d.ok => v = layout.version)
  <2>1. Ahead(file, 0, BinaryState(s, layout))
    BY <1>15 DEF S
  <2>2. LET v1 == Got(Take(Start, file, BinaryHeader), "version", 0)
            q1 == BinaryStateReader(file)
            d1 == DerivedReader(q1, file, v1)
        IN  /\ Reads(Start, d1, file, BinaryBody(s, layout), BinaryBodyNames(layout), table)
            /\ d1.ok => v1 = layout.version
    BY <1>0, <1>11, <2>1, BinaryBodyReads
  <2> QED
    BY <2>2 DEF A, NA
<1> HIDE DEF v, q, d, e, w, P, r
<1>17. Fills(Start, d, file, Len(A), NA, table)
  BY <1>14, <1>16, StartIsReader DEF Reads
<1>18. /\ Reader(d) /\ d.ok /\ v = layout.version
       /\ \A x \in NA : x \in DOMAIN d.got /\ d.got[x] = table[x]
  BY <1>11, <1>16, <1>17, StartIsReader DEF Fills
<1>19. CASE ~asked
  <2>1. r = d
    BY <1>1, <1>19
  <2>2. StateIs(d, s)
    BY <1>6, <1>9, <1>18 DEF StateIs, HoldsState
  <2> QED
    BY <1>18, <1>19, <2>1, <2>2 DEF r, file
<1>20. CASE asked /\ layout.version = 9
  <2>1. Reader(e) /\ ~e.ok
    BY <1>18, <1>20, Demanded DEF e
  <2>2. Reader(w) /\ ~w.ok
    <3>1. (v >= 2) \in BOOLEAN
      OBVIOUS
    <3> QED
      BY <2>1, <3>1, StagesFail DEF w
  <2>3. Reader(P) /\ ~P.ok
    BY <2>2, RecordFails DEF P
  <2>4. ~Demand(P, SymmetryAgrees(P)).ok
    BY <2>3 DEF Demand, Reader
  <2>5. ~r.ok
    BY <1>1, <1>18, <1>20, <2>4
  <2> QED
    BY <1>20, <2>5 DEF r, file
<1>21. CASE asked /\ layout.version # 9
  <2>1. e = d
    <3>1. (v # 9) \in BOOLEAN /\ (v # 9)
      BY <1>18, <1>21
    <3> QED
      BY <1>18, <3>1, DemandHolds DEF e
  <2>2. (v >= 2) = layout.policy
    BY <1>5, <1>18
  <2>3. w = ReadStages(OutcomeReader(d, file, layout.policy), file)
    BY <2>1, <2>2 DEF w
  <2>4. Reads(Start, w, file, R, NR, table)
    <3>1. /\ IsSequence(BinaryBody(s, layout))
          /\ Reads(Start, d, file, BinaryBody(s, layout), BinaryBodyNames(layout), table)
      BY <1>7, <1>16 DEF A, NA
    <3>2. LET w1 == ReadStages(OutcomeReader(d, file, layout.policy), file)
          IN  Reads(Start, w1, file, BinaryRun(s, report, layout), BinaryRunNames(layout),
                    table)
      BY <1>0, <1>11, <3>1, BinaryRunReads
    <3> QED
      BY <2>3, <3>2 DEF R, NR
  <2>5. Fills(Start, w, file, Len(R), NR, table)
    BY <1>13, <2>4, StartIsReader DEF Reads
  <2>6. /\ Reader(w) /\ w.ok /\ w.at = Len(R) /\ DOMAIN w.got = NR
        /\ \A x \in NR : w.got[x] = table[x]
    BY <1>11, <2>5, StartIsReader DEF Fills
  <2>7. StateIs(w, s) /\ ReportIs(w, report)
    BY <1>6, <1>9, <2>6 DEF StateIs, HoldsState, ReportIs, Got
  <2>8. CASE layout.version <= 2
    <3>1. r = w
      BY <1>1, <1>5, <1>18, <1>21, <2>8
    <3>2. RecordIs(w, p, layout)
      <4>1. layout.record = "none"
        BY <1>5, <2>8
      <4> QED
        BY <4>1 DEF RecordIs
    <3> QED
      BY <2>6, <2>7, <3>1, <3>2 DEF r, file
  <2>9. CASE layout.version >= 3
    <3>1. layout.record = "typed"
      BY <1>5, <1>21, <2>9
    <3> DEFINE flags == BinaryFlags(layout.version)
    <3>2. /\ TypedLayout(layout) /\ flags.types = layout.types
          /\ flags.free = layout.free /\ flags.asymmetric = layout.asymmetric
      BY <1>4, <3>1, FlagsOfLayout
    <3> HIDE DEF flags
    <3>3. P = ReadRecord(w, file, flags)
      BY <1>18 DEF P, flags
    <3>4. DOMAIN w.got \cap RecordNames = {}
      BY <1>9, <2>6
    <3>5. Reads(w, P, file, D, ND, table)
      <4>1. w.at <= Len(file)
        BY <1>11, <2>6
      <4> QED
        BY <1>4, <1>6, <1>11, <2>6, <3>2, <3>3, <3>4, <4>1, RecordReads DEF D, ND
    <3>6. Ahead(file, w.at, D)
      <4>1. 0 + Len(R) = w.at
        BY <1>11, <2>6
      <4> QED
        BY <1>13, <4>1
    <3>7. Fills(w, P, file, Len(D), ND, table)
      BY <3>5, <3>6 DEF Reads
    <3>8. Reader(P) /\ P.ok
      BY <1>11, <2>6, <3>7 DEF Fills
    <3>9. Known(w, P, file, ND, table)
      BY <1>11, <2>6, <3>7, FillsKnown
    <3>10. RecordIs(P, p, layout) /\ Got(P, "lasym", 0) = IF p.lasym THEN 1 ELSE 0
      <4>1. layout.asymmetric <=> p.lasym
        BY <1>4, <3>1
      <4> QED
        BY <1>4, <1>6, <3>2, <3>4, <3>8, <3>9, <4>1, RecordFound DEF ND
    <3>11. /\ \A x \in NR : x \in DOMAIN P.got /\ P.got[x] = table[x]
           /\ DOMAIN P.got = ND \cup NR
      BY <1>9, <2>6, <3>8, <3>9 DEF Known
    <3>12. StateIs(P, s) /\ ReportIs(P, report)
      BY <1>6, <1>9, <3>11 DEF StateIs, HoldsState, ReportIs, Got
    <3>13. Got(P, "components", 6) = Components(s.lasym)
      <4>1. CASE layout.count
        <5>1. "components" \in DOMAIN P.got /\ P.got["components"] = table["components"]
          BY <1>9, <3>11, <4>1
        <5>2. table["components"] = Components(s.lasym)
          BY <1>6 DEF HoldsState
        <5> QED
          BY <5>1, <5>2 DEF Got
      <4>2. CASE ~layout.count
        <5>1. "components" \notin DOMAIN P.got
          <6>1. "components" \notin RecordNames
            BY DEF RecordNames
          <6> QED
            BY <1>9, <3>11, <4>2, <6>1
        <5>2. Components(s.lasym) = 6
          BY <1>4, <4>2 DEF Components
        <5> QED
          BY <5>1, <5>2 DEF Got
      <4> QED
        BY <4>1, <4>2
    <3>14. SymmetryAgrees(P)
      BY <1>4, <3>10, <3>13 DEF SymmetryAgrees, Components
    <3>15. Demand(P, SymmetryAgrees(P)) = P
      <4>1. SymmetryAgrees(P) \in BOOLEAN
        BY DEF SymmetryAgrees
      <4> QED
        BY <3>8, <3>14, <4>1, DemandHolds
    <3>16. r = P
      BY <1>1, <1>18, <1>21, <2>9, <3>15
    <3> QED
      BY <3>8, <3>10, <3>12, <3>16 DEF r, file
  <2> QED
    BY <1>5, <2>8, <2>9
<1> QED
  BY <1>19, <1>20, <1>21

(* Whatever is in an empty file, it is refused.                              *)
LEMMA EmptyRefused ==
  ASSUME NEW asked \in BOOLEAN
  PROVE  ~ReadBinary(<<>>, asked).ok
<1> DEFINE file == <<>>
           h == Take(Start, file, BinaryHeader)
           v == Got(h, "version", 0)
           q == BinaryStateReader(file)
           d == DerivedReader(q, file, v)
           e == Demand(d, v # 9)
           w == ReadStages(OutcomeReader(e, file, v >= 2), file)
           P == ReadRecord(w, file, BinaryFlags(v))
           r == ReadBinary(file, asked)
<1>1. r = IF ~asked THEN d ELSE IF v >= 3 THEN Demand(P, SymmetryAgrees(P)) ELSE w
  BY DEF ReadBinary, BinaryStateReader, DerivedReader, OutcomeReader, Policy, BinaryHeader
<1>2. Len(file) = 0 /\ Len(file) \in Nat
  OBVIOUS
<1>3. Len(BinaryHeader) = 4
  BY FourFields DEF BinaryHeader
<1>4. Start.at + Len(BinaryHeader) > Len(file)
  BY <1>2, <1>3, StartIsReader
<1>5. h = [Start EXCEPT !.ok = FALSE]
  BY <1>4 DEF Take
<1>6. ~h.ok
  BY <1>5, StartIsReader, Failing
<1>7. Reader(q) /\ ~q.ok
  BY <1>2, <1>6, BinaryStateReaderIs
<1>8. (v # 9) \in BOOLEAN /\ (v >= 2) \in BOOLEAN
  OBVIOUS
<1>9. d = IF v >= 8 THEN ReadDerived(q, file) ELSE q
  BY DEF DerivedReader
<1> HIDE DEF file, h, v, q, d, e, w, P, r
<1>10. Reader(d) /\ ~d.ok
  <2> DEFINE k == Take(q, file, <<<<"count", "dims">>>>)
             n == Got(k, "dims", 0)
             f == Demand(k, n = 0 \/ (n = 1 /\ Got(k, "ns", 0) >= 2))
             t == TakeIf(f.ok /\ n = 1, f, file, <<<<"arrays", "fields">>>>)
  <2>1. Reader(k) /\ ~k.ok
    BY <1>7, FailsOn
  <2>2. (n = 0 \/ (n = 1 /\ Got(k, "ns", 0) >= 2)) \in BOOLEAN
    OBVIOUS
  <2>3. ReadDerived(q, file) = t
    BY DEF ReadDerived
  <2> HIDE DEF k
  <2>4. Reader(f) /\ ~f.ok
    BY <2>1, <2>2, Demanded
  <2> HIDE DEF n, f
  <2>5. Reader(t) /\ ~t.ok
    BY <2>4, FailsOn
  <2> HIDE DEF t
  <2> QED
    BY <1>7, <1>9, <2>3, <2>5
<1>11. Reader(e) /\ ~e.ok
  BY <1>8, <1>10, Demanded DEF e
<1>12. Reader(w) /\ ~w.ok
  BY <1>8, <1>11, StagesFail DEF w
<1>13. Reader(P) /\ ~P.ok
  BY <1>12, RecordFails DEF P
<1>14. ~Demand(P, SymmetryAgrees(P)).ok
  BY <1>13 DEF Demand, Reader
<1>15. ~r.ok
  BY <1>1, <1>10, <1>12, <1>14
<1> QED
  BY <1>15 DEF r, file

-----------------------------------------------------------------------------
(* The restarts of the stages, as offsets into the list of all of them.      *)
LEMMA CountedIs ==
  ASSUME NEW report \in Seq(Nat)
  PROVE  LET c == Counted(report)
         IN  /\ c[0] = 0
             /\ \A g \in 1 .. Len(report) : c[g] = c[g - 1] + report[g]
<1> DEFINE N == Len(report)
           Step(f, m) == f = [g \in 0 .. m |-> IF g = 0 THEN 0 ELSE f[g - 1] + report[g]]
           S == {m \in Nat : \E f : Step(f, m)}
<1>0. N \in Nat
  OBVIOUS
<1>1. 0 \in S
  <2> DEFINE g == [k \in 0 .. 0 |-> 0]
  <2>1. Step(g, 0)
    OBVIOUS
  <2> HIDE DEF g
  <2>2. \E f : Step(f, 0)
    BY <2>1
  <2> QED
    BY <2>2
<1>2. ASSUME NEW m \in Nat, m \in S
      PROVE  m + 1 \in S
  <2>1. PICK f : Step(f, m)
    BY <1>2
  <2> DEFINE h == [g \in 0 .. m + 1 |-> IF g <= m THEN f[g] ELSE f[m] + report[m + 1]]
  <2>2. ASSUME NEW g \in 0 .. m + 1
        PROVE  h[g] = IF g = 0 THEN 0 ELSE h[g - 1] + report[g]
    <3>1. CASE g = m + 1
      BY <3>1
    <3>2. CASE g \in 0 .. m
      <4>1. h[g] = f[g] /\ (g # 0 => g - 1 \in 0 .. m /\ h[g - 1] = f[g - 1])
        BY <3>2
      <4>2. f[g] = IF g = 0 THEN 0 ELSE f[g - 1] + report[g]
        BY <2>1, <3>2
      <4> QED
        BY <4>1, <4>2
    <3> QED
      BY <3>1, <3>2
  <2>3. h = [g \in 0 .. m + 1 |-> h[g]]
    OBVIOUS
  <2> HIDE DEF h
  <2>4. Step(h, m + 1)
    BY <2>2, <2>3
  <2>5. m + 1 \in Nat
    OBVIOUS
  <2> HIDE DEF Step
  <2>6. \E e : Step(e, m + 1)
    BY <2>4
  <2> QED
    BY <2>5, <2>6
<1>3. Nat \subseteq S
  <2> HIDE DEF S
  <2> QED
    BY <1>1, <1>2, Counting
<1>4. \E f : Step(f, N)
  BY <1>3
<1>5. Counted(report) = (CHOOSE f : Step(f, N))
  BY DEF Counted
<1> DEFINE h == CHOOSE f : Step(f, N)
<1>6. Step(h, N)
  BY <1>4
<1> HIDE DEF h, N
<1>7. h[0] = 0 /\ \A g \in 1 .. N : h[g] = h[g - 1] + report[g]
  BY <1>0, <1>6
<1> QED
  BY <1>5, <1>7 DEF h, N

LEMMA CountedGrows ==
  ASSUME NEW report \in Seq(Nat)
  PROVE  LET c == Counted(report)
         IN  \A g \in 0 .. Len(report) : c[g] \in Nat /\ \A m \in 0 .. g : c[m] <= c[g]
<1> DEFINE c == Counted(report)
           S == {g \in Nat : g <= Len(report) =>
                               c[g] \in Nat /\ \A m \in 0 .. g : c[m] \in Nat /\ c[m] <= c[g]}
<1>1. c[0] = 0 /\ \A g \in 1 .. Len(report) : c[g] = c[g - 1] + report[g]
  BY CountedIs
<1>2. Len(report) \in Nat /\ \A g \in 1 .. Len(report) : report[g] \in Nat
  OBVIOUS
<1> HIDE DEF c
<1>3. 0 \in S
  BY <1>1
<1>4. ASSUME NEW g \in Nat, g \in S
      PROVE  g + 1 \in S
  <2> SUFFICES ASSUME g + 1 <= Len(report)
               PROVE  /\ c[g + 1] \in Nat
                      /\ \A m \in 0 .. g + 1 : c[m] \in Nat /\ c[m] <= c[g + 1]
    OBVIOUS
  <2>1. g + 1 \in 1 .. Len(report)
    BY <1>2
  <2>2. c[g + 1] = c[g] + report[g + 1] /\ report[g + 1] \in Nat
    <3>1. (g + 1) - 1 = g
      OBVIOUS
    <3> QED
      BY <1>1, <1>2, <2>1, <3>1
  <2>3. c[g] \in Nat /\ \A m \in 0 .. g : c[m] \in Nat /\ c[m] <= c[g]
    BY <1>2, <1>4
  <2>4. c[g + 1] \in Nat /\ c[g] <= c[g + 1]
    BY <2>2, <2>3
  <2>5. ASSUME NEW m \in 0 .. g + 1
        PROVE  c[m] \in Nat /\ c[m] <= c[g + 1]
    <3>1. CASE m = g + 1
      BY <2>4, <3>1
    <3>2. CASE m \in 0 .. g
      BY <2>2, <2>3, <3>2
    <3> QED
      BY <3>1, <3>2
  <2> QED
    BY <2>4, <2>5
<1>5. Nat \subseteq S
  <2> HIDE DEF S
  <2> QED
    BY <1>3, <1>4, Counting
<1> QED
  BY <1>2, <1>5 DEF c

(* The restarts of each stage come back from the offsets.                    *)
LEMMA OffsetsReadBack ==
  ASSUME NEW report \in Seq(Nat)
  PROVE  /\ OffsetsValid(Offsets(report), Restarts(report))
         /\ ReportOf(Offsets(report), Restarts(report)) = report
         /\ Restarts(report) \in Nat
<1> DEFINE c == Counted(report)
           o == Offsets(report)
           n == Restarts(report)
           N == Len(report)
<1>1. c[0] = 0 /\ \A g \in 1 .. N : c[g] = c[g - 1] + report[g]
  BY CountedIs
<1>2. \A g \in 0 .. N : c[g] \in Nat /\ \A m \in 0 .. g : c[m] <= c[g]
  BY CountedGrows
<1>3. /\ N \in Nat /\ DOMAIN report = 1 .. N
      /\ \A g \in 1 .. N : report[g] \in Nat
      /\ report = [g \in 1 .. N |-> report[g]]
  OBVIOUS
<1>4. /\ o = [g \in 1 .. N |-> c[g - 1]] /\ n = c[N]
  BY <1>3 DEF Offsets, Restarts
<1> HIDE DEF c, o, n, N
<1>5. DOMAIN o = 1 .. N /\ \A g \in 1 .. N : o[g] = c[g - 1]
  BY <1>4
<1>6. Len(o) = N
  <2>1. o = [g \in 1 .. N |-> o[g]]
    BY <1>4, <1>5
  <2> QED
    BY <1>3, <1>5, <2>1, Mapped
<1>7. n \in Nat
  BY <1>2, <1>3, <1>4
<1>8. o # <<>> => o[1] = 0
  <2> SUFFICES ASSUME o # <<>>
               PROVE  o[1] = 0
    OBVIOUS
  <2>1. N # 0
    <3>1. ASSUME N = 0
          PROVE  FALSE
      <4>1. o = [g \in 1 .. 0 |-> c[g - 1]]
        BY <1>4, <3>1
      <4>2. o = <<>>
        BY <4>1
      <4> QED
        BY <4>2
    <3> QED
      BY <3>1
  <2>2. 1 \in 1 .. N /\ 1 - 1 = 0
    BY <1>3, <2>1
  <2>3. o[1] = c[1 - 1]
    BY <1>5, <2>2
  <2> QED
    BY <1>1, <2>2, <2>3
<1>9. ASSUME NEW g \in DOMAIN o
      PROVE  o[g] \in 0 .. n /\ (g > 1 => o[g - 1] <= o[g])
  <2>1. g \in 1 .. N /\ o[g] = c[g - 1] /\ g - 1 \in 0 .. N
    BY <1>3, <1>5, <1>9
  <2>2. c[g - 1] \in Nat /\ c[N] \in Nat /\ c[g - 1] <= c[N]
    BY <1>2, <1>3, <2>1
  <2>3. ASSUME g > 1
        PROVE  o[g - 1] <= o[g]
    <3>1. g - 1 \in 1 .. N /\ (g - 1) - 1 \in 0 .. g - 1
      BY <1>3, <2>1, <2>3
    <3>2. o[g - 1] = c[(g - 1) - 1]
      BY <1>5, <3>1
    <3> QED
      BY <1>2, <2>1, <3>1, <3>2
  <2> QED
    BY <1>4, <2>1, <2>2, <2>3
<1>10. OffsetsValid(o, n)
  BY <1>8, <1>9 DEF OffsetsValid
<1>11. ReportOf(o, n) = report
  <2> DEFINE back == [g \in 1 .. N |-> (IF g < N THEN o[g + 1] ELSE n) - o[g]]
  <2>1. ReportOf(o, n) = back
    BY <1>5, <1>6 DEF ReportOf
  <2>2. ASSUME NEW g \in 1 .. N
        PROVE  (IF g < N THEN o[g + 1] ELSE n) - o[g] = report[g]
    <3>1. o[g] = c[g - 1] /\ c[g - 1] \in Nat /\ report[g] \in Nat
          /\ c[g] = c[g - 1] + report[g]
      <4>1. g - 1 \in 0 .. N
        BY <1>3
      <4> QED
        BY <1>1, <1>2, <1>3, <1>5, <4>1
    <3>2. CASE g < N
      <4>1. g + 1 \in 1 .. N /\ (g + 1) - 1 = g
        BY <1>3, <3>2
      <4>2. o[g + 1] = c[g]
        BY <1>5, <4>1
      <4> QED
        BY <3>1, <3>2, <4>2
    <3>3. CASE g = N
      BY <1>4, <3>1, <3>3
    <3> QED
      BY <1>3, <3>2, <3>3
  <2>3. back = [g \in 1 .. N |-> report[g]]
    BY <2>2
  <2> QED
    BY <1>3, <2>1, <2>3
<1> QED
  BY <1>7, <1>10, <1>11 DEF o, n

-----------------------------------------------------------------------------
(* The named containers: every array by its name, with its dimensions.       *)
EveryArray(s, p, report) ==
  Over(StateArrays(s), Over(ReportArrays(report),
    Over(BoundaryArrays, Over(RecordArrays(p), AsymmetricArrays))))

ArrayDims ==
  [families |-> <<"ns", "mnmax">>, complement |-> <<"ns", "mnmax">>,
   half |-> <<"ns_half", "n_angles">>, full |-> <<"ns", "n_angles">>,
   outcome |-> <<>>, provenance |-> <<>>, stage_history |-> <<"nstages">>,
   restart_iteration |-> <<"nrestarts">>, rbc |-> <<"nrbc">>, zbs |-> <<"nzbs">>,
   folded |-> <<"n_boundary">>, scalars |-> <<>>, types |-> <<>>, free |-> <<>>,
   makegrid |-> <<>>, stages |-> <<"nstages_in">>, profiles |-> <<"n_profiles">>,
   axis |-> <<"n_axis">>, extcur |-> <<"n_extcur">>, lasym |-> <<>>,
   complement_folded |-> <<"n_boundary">>, rbs |-> <<"n_rbs">>, zbc |-> <<"n_zbc">>]

Family(s, first) == [c \in 1 .. 6 |-> <<s.state, first + c>>]

LEMMA OverApart ==
  ASSUME NEW a, NEW b, DOMAIN a \cap DOMAIN b = {}
  PROVE  /\ DOMAIN Over(a, b) = DOMAIN a \cup DOMAIN b
         /\ \A x \in DOMAIN a : Over(a, b)[x] = a[x]
         /\ \A x \in DOMAIN b : Over(a, b)[x] = b[x]
BY DEF Over

(* The dimensions and the values of the arrays that matter below.            *)
LEMMA EveryArrayIs ==
  ASSUME NEW s, NEW p, NEW report
  PROVE  LET e == EveryArray(s, p, report)
         IN  /\ \A x \in DOMAIN ArrayDims : e[x].dims = ArrayDims[x]
             /\ e["families"].value = Family(s, 0) /\ e["complement"].value = Family(s, 6)
             /\ e["half"].value = s.state /\ e["full"].value = s.state
             /\ e["stage_history"].value = Offsets(report)
             /\ e["free"].value = p.embedded
<1> DEFINE e1 == StateArrays(s)
           e2 == ReportArrays(report)
           e3 == BoundaryArrays
           r1 == [scalars |-> Array(<<>>, "scalars"), types |-> Array(<<>>, "types"),
                  free |-> Array(<<>>, p.embedded), makegrid |-> Array(<<>>, "makegrid"),
                  stages |-> Array(<<"nstages_in">>, "stages")]
           r2 == [v \in Vectors |-> Array(<<InputLength(v)>>, v)]
           e4 == RecordArrays(p)
           e5 == AsymmetricArrays
           f4 == Over(e4, e5)
           f3 == Over(e3, f4)
           f2 == Over(e2, f3)
           e == Over(e1, f2)
<1>1. /\ DOMAIN e1 = {"families", "complement", "half", "full"}
      /\ e1["families"] = Array(<<"ns", "mnmax">>, Family(s, 0))
      /\ e1["complement"] = Array(<<"ns", "mnmax">>, Family(s, 6))
      /\ e1["half"] = Array(<<"ns_half", "n_angles">>, s.state)
      /\ e1["full"] = Array(<<"ns", "n_angles">>, s.state)
  BY DEF StateArrays, Family
<1>2. /\ DOMAIN e2 = {"outcome", "provenance", "stage_history", "restart_iteration"}
      /\ e2["outcome"] = Array(<<>>, "outcome") /\ e2["provenance"] = Array(<<>>, "provenance")
      /\ e2["stage_history"] = Array(<<"nstages">>, Offsets(report))
      /\ e2["restart_iteration"] = Array(<<"nrestarts">>, "iterations")
  BY DEF ReportArrays
<1>3. /\ DOMAIN e3 = {"rbc", "zbs", "folded"}
      /\ e3["rbc"] = Array(<<"nrbc">>, "rbc") /\ e3["zbs"] = Array(<<"nzbs">>, "zbs")
      /\ e3["folded"] = Array(<<"n_boundary">>, "folded")
  BY DEF BoundaryArrays
<1>4. /\ DOMAIN r1 = {"scalars", "types", "free", "makegrid", "stages"}
      /\ r1["scalars"] = Array(<<>>, "scalars") /\ r1["types"] = Array(<<>>, "types")
      /\ r1["free"] = Array(<<>>, p.embedded) /\ r1["makegrid"] = Array(<<>>, "makegrid")
      /\ r1["stages"] = Array(<<"nstages_in">>, "stages")
  OBVIOUS
<1>5. /\ DOMAIN r2 = {"profiles", "axis", "extcur"}
      /\ r2["profiles"] = Array(<<"n_profiles">>, "profiles")
      /\ r2["axis"] = Array(<<"n_axis">>, "axis")
      /\ r2["extcur"] = Array(<<"n_extcur">>, "extcur")
  BY DEF Vectors, InputLength
<1>6. /\ DOMAIN e5 = {"lasym", "complement_folded", "rbs", "zbc"}
      /\ e5["lasym"] = Array(<<>>, 1)
      /\ e5["complement_folded"] = Array(<<"n_boundary">>, "folded")
      /\ e5["rbs"] = Array(<<"n_rbs">>, "rbs") /\ e5["zbc"] = Array(<<"n_zbc">>, "zbc")
  BY DEF AsymmetricArrays
<1>7. e4 = Over(r1, r2)
  BY DEF RecordArrays
<1>8. EveryArray(s, p, report) = e
  BY DEF EveryArray
<1>9. \A d, v : Array(d, v).dims = d /\ Array(d, v).value = v
  BY DEF Array
<1> HIDE DEF e1, e2, e3, r1, r2, e4, e5
<1>10. /\ DOMAIN e4 = {"scalars", "types", "free", "makegrid", "stages"}
                        \cup {"profiles", "axis", "extcur"}
       /\ \A x \in DOMAIN r1 : e4[x] = r1[x]
       /\ \A x \in {"profiles", "axis", "extcur"} : e4[x] = r2[x]
  <2>1. DOMAIN r1 \cap DOMAIN r2 = {}
    BY <1>4, <1>5
  <2>2. /\ DOMAIN e4 = DOMAIN r1 \cup DOMAIN r2
        /\ \A x \in DOMAIN r1 : e4[x] = r1[x]
        /\ \A x \in DOMAIN r2 : e4[x] = r2[x]
    BY ONLY <1>7, <2>1 DEF Over
  <2> QED
    BY ONLY <1>4, <1>5, <2>2
<1>11. /\ DOMAIN f4 = DOMAIN e4 \cup DOMAIN e5
       /\ \A x \in DOMAIN e4 : f4[x] = e4[x]
       /\ \A x \in {"lasym", "complement_folded", "rbs", "zbc"} : f4[x] = e5[x]
  <2>1. DOMAIN e4 \cap DOMAIN e5 = {}
    BY <1>6, <1>10
  <2>2. f4 = Over(e4, e5)
    BY DEF f4
  <2> HIDE DEF f4
  <2>3. /\ DOMAIN f4 = DOMAIN e4 \cup DOMAIN e5
        /\ \A x \in DOMAIN e4 : f4[x] = e4[x]
        /\ \A x \in DOMAIN e5 : f4[x] = e5[x]
    BY ONLY <2>1, <2>2, OverApart
  <2> QED
    BY ONLY <1>6, <2>3
<1> HIDE DEF f4
<1>12. /\ DOMAIN f3 = DOMAIN e3 \cup DOMAIN f4
       /\ \A x \in DOMAIN e3 : f3[x] = e3[x]
       /\ \A x \in DOMAIN e4 \cup DOMAIN e5 : f3[x] = f4[x]
  <2>1. DOMAIN e3 \cap DOMAIN f4 = {} /\ DOMAIN f4 = DOMAIN e4 \cup DOMAIN e5
    BY <1>3, <1>6, <1>10, <1>11
  <2>2. f3 = Over(e3, f4)
    BY DEF f3
  <2> HIDE DEF f3
  <2>3. /\ DOMAIN f3 = DOMAIN e3 \cup DOMAIN f4
        /\ \A x \in DOMAIN e3 : f3[x] = e3[x]
        /\ \A x \in DOMAIN f4 : f3[x] = f4[x]
    BY ONLY <2>1, <2>2 DEF Over
  <2> QED
    BY ONLY <2>1, <2>3
<1> HIDE DEF f3
<1>13. /\ DOMAIN f2 = DOMAIN e2 \cup DOMAIN f3
       /\ \A x \in DOMAIN e2 : f2[x] = e2[x]
       /\ \A x \in DOMAIN e3 \cup DOMAIN e4 \cup DOMAIN e5 : f2[x] = f3[x]
  <2>1. DOMAIN e2 \cap DOMAIN f3 = {}
        /\ DOMAIN f3 = DOMAIN e3 \cup DOMAIN e4 \cup DOMAIN e5
    BY <1>2, <1>3, <1>6, <1>10, <1>11, <1>12
  <2>2. f2 = Over(e2, f3)
    BY DEF f2
  <2> HIDE DEF f2
  <2>3. /\ DOMAIN f2 = DOMAIN e2 \cup DOMAIN f3
        /\ \A x \in DOMAIN e2 : f2[x] = e2[x]
        /\ \A x \in DOMAIN f3 : f2[x] = f3[x]
    BY ONLY <2>1, <2>2 DEF Over
  <2> QED
    BY ONLY <2>1, <2>3
<1> HIDE DEF f2
<1>14. /\ \A x \in DOMAIN e1 : e[x] = e1[x]
       /\ \A x \in DOMAIN e2 \cup DOMAIN e3 \cup DOMAIN e4 \cup DOMAIN e5 : e[x] = f2[x]
  <2>1. DOMAIN e1 \cap DOMAIN f2 = {}
        /\ DOMAIN f2 = DOMAIN e2 \cup DOMAIN e3 \cup DOMAIN e4 \cup DOMAIN e5
    BY <1>1, <1>2, <1>3, <1>6, <1>10, <1>11, <1>12, <1>13
  <2>2. e = Over(e1, f2)
    BY DEF e
  <2> HIDE DEF e
  <2>3. /\ DOMAIN e = DOMAIN e1 \cup DOMAIN f2
        /\ \A x \in DOMAIN e1 : e[x] = e1[x]
        /\ \A x \in DOMAIN f2 : e[x] = f2[x]
    BY ONLY <2>1, <2>2 DEF Over
  <2> QED
    BY ONLY <2>1, <2>3
<1> HIDE DEF e
<1>15. /\ \A x \in DOMAIN e2 : e[x] = e2[x]
       /\ \A x \in DOMAIN e3 : e[x] = e3[x]
       /\ \A x \in DOMAIN e4 : e[x] = e4[x]
       /\ \A x \in {"lasym", "complement_folded", "rbs", "zbc"} : e[x] = e5[x]
  <2>1. \A x \in DOMAIN e2 : e[x] = e2[x]
    BY <1>13, <1>14
  <2>2. \A x \in DOMAIN e3 : e[x] = e3[x]
    BY <1>12, <1>13, <1>14
  <2>3. \A x \in DOMAIN e4 : e[x] = e4[x]
    BY <1>11, <1>12, <1>13, <1>14
  <2>4. \A x \in {"lasym", "complement_folded", "rbs", "zbc"} : e[x] = e5[x]
    BY <1>6, <1>11, <1>12, <1>13, <1>14
  <2> QED
    BY <2>1, <2>2, <2>3, <2>4
<1>16. /\ e["families"] = e1["families"] /\ e["complement"] = e1["complement"]
       /\ e["half"] = e1["half"] /\ e["full"] = e1["full"]
  BY <1>1, <1>14
<1>17. /\ e["outcome"] = e2["outcome"] /\ e["provenance"] = e2["provenance"]
       /\ e["stage_history"] = e2["stage_history"]
       /\ e["restart_iteration"] = e2["restart_iteration"]
  BY <1>2, <1>15
<1>18. e["rbc"] = e3["rbc"] /\ e["zbs"] = e3["zbs"] /\ e["folded"] = e3["folded"]
  BY <1>3, <1>15
<1>19. /\ e["scalars"] = r1["scalars"] /\ e["types"] = r1["types"] /\ e["free"] = r1["free"]
       /\ e["makegrid"] = r1["makegrid"] /\ e["stages"] = r1["stages"]
  BY <1>4, <1>10, <1>15
<1>20. e["profiles"] = r2["profiles"] /\ e["axis"] = r2["axis"] /\ e["extcur"] = r2["extcur"]
  BY <1>10, <1>15
<1>21. /\ e["lasym"] = e5["lasym"] /\ e["complement_folded"] = e5["complement_folded"]
       /\ e["rbs"] = e5["rbs"] /\ e["zbc"] = e5["zbc"]
  BY <1>15
<1>22. \A x \in DOMAIN ArrayDims : e[x].dims = ArrayDims[x]
  <2> DEFINE Fits(x) == e[x].dims = ArrayDims[x]
  <2>1. Fits("families") /\ Fits("complement") /\ Fits("half") /\ Fits("full")
    BY <1>1, <1>9, <1>16 DEF ArrayDims
  <2>2. Fits("outcome") /\ Fits("provenance") /\ Fits("stage_history")
        /\ Fits("restart_iteration")
    BY <1>2, <1>9, <1>17 DEF ArrayDims
  <2>3. Fits("rbc") /\ Fits("zbs") /\ Fits("folded")
    BY <1>3, <1>9, <1>18 DEF ArrayDims
  <2>4. Fits("scalars") /\ Fits("types") /\ Fits("free") /\ Fits("makegrid") /\ Fits("stages")
    BY <1>4, <1>9, <1>19 DEF ArrayDims
  <2>5. Fits("profiles") /\ Fits("axis") /\ Fits("extcur")
    BY <1>5, <1>9, <1>20 DEF ArrayDims
  <2>6. Fits("lasym") /\ Fits("complement_folded") /\ Fits("rbs") /\ Fits("zbc")
    BY <1>6, <1>9, <1>21 DEF ArrayDims
  <2>7. DOMAIN ArrayDims =
          {"families", "complement", "half", "full", "outcome", "provenance",
           "stage_history", "restart_iteration", "rbc", "zbs", "folded", "scalars",
           "types", "free", "makegrid", "stages", "profiles", "axis", "extcur", "lasym",
           "complement_folded", "rbs", "zbc"}
    BY DEF ArrayDims
  <2> HIDE DEF Fits
  <2>8. \A x \in DOMAIN ArrayDims : Fits(x)
    BY <2>1, <2>2, <2>3, <2>4, <2>5, <2>6, <2>7
  <2> QED
    BY <2>8 DEF Fits
<1> QED
  BY <1>1, <1>2, <1>4, <1>8, <1>9, <1>16, <1>17, <1>19, <1>22

(* Which arrays a layout has.                                                *)
LEMMA NamesAre ==
  ASSUME NEW s, s.lasym \in BOOLEAN, s.fields = "complete",
         NEW layout, layout \in NamedLayouts
  PROVE  LET names == ArrayNames(s, layout)
             typed == layout.record = "typed"
         IN  /\ names \subseteq DOMAIN ArrayDims
             /\ {"families", "half", "full", "outcome", "provenance", "stage_history",
                 "restart_iteration", "rbc", "zbs", "folded"} \subseteq names
             /\ "complement" \in names <=> s.lasym
             /\ "scalars" \in names <=> typed
             /\ typed => {"stages", "profiles", "axis", "extcur"} \subseteq names
             /\ "types" \in names <=> typed /\ layout.types
             /\ "free" \in names <=> typed /\ layout.free
             /\ "makegrid" \in names <=> typed /\ layout.free
             /\ typed /\ s.lasym =>
                  {"lasym", "complement_folded", "rbs", "zbc"} \subseteq names
             /\ layout.types \in BOOLEAN /\ layout.free \in BOOLEAN
<1>1. /\ DOMAIN ReportArrays(<<>>)
           = {"outcome", "provenance", "stage_history", "restart_iteration"}
      /\ DOMAIN BoundaryArrays = {"rbc", "zbs", "folded"}
      /\ DOMAIN AsymmetricArrays = {"lasym", "complement_folded", "rbs", "zbc"}
  BY DEF ReportArrays, BoundaryArrays, AsymmetricArrays
<1>2. layout.types \in BOOLEAN /\ layout.free \in BOOLEAN
  <2>1. CASE layout \in {[record |-> "typed", types |-> t, free |-> b] :
                          t \in BOOLEAN, b \in BOOLEAN}
    <3>1. PICK t \in BOOLEAN, b \in BOOLEAN :
            layout = [record |-> "typed", types |-> t, free |-> b]
      BY <2>1
    <3> QED
      BY <3>1
  <2>2. CASE layout \in {[record |-> r, types |-> FALSE, free |-> FALSE] :
                          r \in {"none", "json"}}
    <3>1. PICK r \in {"none", "json"} : layout = [record |-> r, types |-> FALSE, free |-> FALSE]
      BY <2>2
    <3> QED
      BY <3>1
  <2> QED
    BY <2>1, <2>2 DEF NamedLayouts
<1>3. DOMAIN ArrayDims =
        {"families", "complement", "half", "full", "outcome", "provenance",
         "stage_history", "restart_iteration", "rbc", "zbs", "folded", "scalars",
         "types", "free", "makegrid", "stages", "profiles", "axis", "extcur", "lasym",
         "complement_folded", "rbs", "zbc"}
  BY DEF ArrayDims
<1> QED
  BY <1>1, <1>2, <1>3 DEF ArrayNames, Only, Vectors

(* What an outcome's named containers depend on.                             *)
Shaped(s, p, report) ==
  /\ StateOk(s) /\ s.fields = "complete" /\ p.lasym = s.lasym
  /\ p.stages \in Nat \ {0} /\ p.embedded \in BOOLEAN /\ report \in Seq(Nat)
  /\ \A v \in Vectors : p.lengths[v] \in Nat
  /\ \A x \in {"rbc", "zbs", "rbs", "zbc"} : p.harmonics[x] \in Nat
  /\ p.harmonics["rbc"] # 0 /\ (~s.lasym => p.harmonics["zbs"] # 0)

(* What either writer puts into a file.                                      *)
Sheet(f, s, p, report, layout) ==
  LET typed == layout.record = "typed"
  IN  /\ \A x \in {"families", "half", "full", "outcome", "provenance", "stage_history",
                   "rbc", "folded"} : Has(f, x)
      /\ ~s.lasym => Has(f, "zbs")
      /\ Has(f, "complement") <=> s.lasym
      /\ Has(f, "scalars") <=> typed
      /\ Has(f, "types") <=> typed /\ layout.types
      /\ Has(f, "free") <=> typed /\ layout.free
      /\ Has(f, "makegrid") <=> typed /\ layout.free
      /\ typed => Has(f, "stages")
      /\ typed => \A v \in Vectors : p.lengths[v] > 0 => Has(f, v)
      /\ typed /\ s.lasym => \A x \in {"rbs", "zbc"} : p.harmonics[x] > 0 => Has(f, x)
      /\ f.arrays["families"].value = Family(s, 0)
      /\ s.lasym => f.arrays["complement"].value = Family(s, 6)
      /\ f.arrays["half"].value = s.state /\ f.arrays["full"].value = s.state
      /\ f.arrays["stage_history"].value = Offsets(report)
      /\ Has(f, "free") => f.arrays["free"].value = p.embedded

LengthNames ==
  {"ns", "mnmax", "nstages", "nrestarts", "nrbc", "nzbs", "n_boundary", "ns_half",
   "n_angles", "n_profiles", "n_axis", "n_extcur", "nstages_in", "n_rbs", "n_zbc"}

(* The length of every dimension.                                            *)
LEMMA LengthsAre ==
  ASSUME NEW s, NEW p, NEW report, Shaped(s, p, report)
  PROVE  LET l == Lengths(s, p, report)
         IN  /\ DOMAIN l = LengthNames \ Only(~s.lasym, {"n_rbs", "n_zbc"})
             /\ l["ns"] = s.ns /\ l["mnmax"] = s.modes /\ l["nstages"] = Len(report)
             /\ l["nrestarts"] = Restarts(report) /\ l["nrbc"] = p.harmonics["rbc"]
             /\ l["nzbs"] = p.harmonics["zbs"] /\ l["ns_half"] = s.ns - 1
             /\ l["n_angles"] = 1 /\ l["nstages_in"] = p.stages
             /\ l["n_profiles"] = p.lengths["profiles"] /\ l["n_axis"] = p.lengths["axis"]
             /\ l["n_extcur"] = p.lengths["extcur"]
             /\ s.lasym => l["n_rbs"] = p.harmonics["rbs"] /\ l["n_zbc"] = p.harmonics["zbc"]
<1> DEFINE every ==
        [ns |-> s.ns, mnmax |-> s.modes, nstages |-> Len(report),
         nrestarts |-> Restarts(report), nrbc |-> p.harmonics["rbc"],
         nzbs |-> p.harmonics["zbs"], n_boundary |-> s.modes,
         ns_half |-> s.ns - 1, n_angles |-> 1,
         n_profiles |-> p.lengths["profiles"], n_axis |-> p.lengths["axis"],
         n_extcur |-> p.lengths["extcur"], nstages_in |-> p.stages,
         n_rbs |-> p.harmonics["rbs"], n_zbc |-> p.harmonics["zbc"]]
           S == DOMAIN every \ (Only(s.fields # "complete", {"ns_half", "n_angles"})
                                 \cup Only(~s.lasym, {"n_rbs", "n_zbc"}))
           l == Lengths(s, p, report)
<1>1. l = Restricted(every, S)
  BY DEF Lengths
<1>2. DOMAIN every = LengthNames
  BY DEF LengthNames
<1>3. /\ every["ns"] = s.ns /\ every["mnmax"] = s.modes /\ every["nstages"] = Len(report)
      /\ every["nrestarts"] = Restarts(report) /\ every["nrbc"] = p.harmonics["rbc"]
      /\ every["nzbs"] = p.harmonics["zbs"] /\ every["ns_half"] = s.ns - 1
      /\ every["n_angles"] = 1 /\ every["nstages_in"] = p.stages
      /\ every["n_profiles"] = p.lengths["profiles"]
      /\ every["n_axis"] = p.lengths["axis"] /\ every["n_extcur"] = p.lengths["extcur"]
      /\ every["n_rbs"] = p.harmonics["rbs"] /\ every["n_zbc"] = p.harmonics["zbc"]
  OBVIOUS
<1> HIDE DEF every
<1>4. S = LengthNames \ Only(~s.lasym, {"n_rbs", "n_zbc"})
  BY <1>2 DEF Only, Shaped
<1> HIDE DEF S, l
<1>5. DOMAIN l = S /\ \A x \in S : l[x] = every[x]
  BY <1>1 DEF Restricted
<1>6. \A x \in LengthNames \ {"n_rbs", "n_zbc"} : l[x] = every[x]
  BY <1>4, <1>5 DEF Only
<1>7. s.lasym => l["n_rbs"] = every["n_rbs"] /\ l["n_zbc"] = every["n_zbc"]
  BY <1>4, <1>5 DEF Only, LengthNames
<1>8. /\ l["ns"] = s.ns /\ l["mnmax"] = s.modes /\ l["nstages"] = Len(report)
      /\ l["nrestarts"] = Restarts(report) /\ l["nrbc"] = p.harmonics["rbc"]
      /\ l["nzbs"] = p.harmonics["zbs"] /\ l["ns_half"] = s.ns - 1
      /\ l["n_angles"] = 1 /\ l["nstages_in"] = p.stages
      /\ l["n_profiles"] = p.lengths["profiles"] /\ l["n_axis"] = p.lengths["axis"]
      /\ l["n_extcur"] = p.lengths["extcur"]
  BY <1>3, <1>6 DEF LengthNames
<1> QED
  BY <1>3, <1>4, <1>5, <1>7, <1>8 DEF l

(* What a NetCDF file that was not refused holds.                            *)
LEMMA NetcdfHolds ==
  ASSUME NEW s, NEW p, NEW report, Shaped(s, p, report),
         NEW layout, layout \in NamedLayouts,
         NEW f, f = NetcdfFile(s, p, report, layout), ~Refused(f)
  PROVE  /\ Sheet(f, s, p, report, layout) /\ Has(f, "restart_iteration") /\ Has(f, "zbs")
         /\ \A x \in DOMAIN ArrayDims : Has(f, x) => f.arrays[x].dims = ArrayDims[x]
         /\ {"ns", "mnmax", "nstages", "nrestarts", "ns_half"} \subseteq DOMAIN f.dims
         /\ f.dims["ns"] = s.ns /\ f.dims["mnmax"] = s.modes
         /\ f.dims["nrestarts"] = Restarts(report) /\ f.dims["ns_half"] = s.ns - 1
<1> DEFINE l == Lengths(s, p, report)
           D == DOMAIN l \ WithoutDimension(l)
           dims == Restricted(l, D)
           e == EveryArray(s, p, report)
           names == ArrayNames(s, layout)
           all == AllArrays(s, p, report, layout)
           here == {x \in DOMAIN all : ToSet(all[x].dims) \subseteq DOMAIN dims}
           typed == layout.record = "typed"
<1>1. f = [dims |-> dims, arrays |-> Restricted(all, here)]
  <2>1. Refused(NoArrays)
    BY DEF Refused, NoArrays
  <2>2. CASE ~Written(s, p) \/ Cardinality({d \in DOMAIN dims : dims[d] = 0}) > 1
    BY <2>1, <2>2 DEF NetcdfFile
  <2>3. CASE ~(~Written(s, p) \/ Cardinality({d \in DOMAIN dims : dims[d] = 0}) > 1)
    BY <2>3 DEF NetcdfFile
  <2> QED
    BY <2>2, <2>3
<1>2. DOMAIN all = names /\ \A x \in names : all[x] = e[x]
  BY DEF AllArrays, EveryArray, Restricted
<1>3. /\ \A x \in DOMAIN ArrayDims : e[x].dims = ArrayDims[x]
      /\ e["families"].value = Family(s, 0) /\ e["complement"].value = Family(s, 6)
      /\ e["half"].value = s.state /\ e["full"].value = s.state
      /\ e["stage_history"].value = Offsets(report)
      /\ e["free"].value = p.embedded
  BY EveryArrayIs
<1>4. /\ DOMAIN l = LengthNames \ Only(~s.lasym, {"n_rbs", "n_zbc"})
      /\ l["ns"] = s.ns /\ l["mnmax"] = s.modes /\ l["nstages"] = Len(report)
      /\ l["nrestarts"] = Restarts(report) /\ l["nrbc"] = p.harmonics["rbc"]
      /\ l["nzbs"] = p.harmonics["zbs"] /\ l["ns_half"] = s.ns - 1
      /\ l["n_angles"] = 1 /\ l["nstages_in"] = p.stages
      /\ l["n_profiles"] = p.lengths["profiles"] /\ l["n_axis"] = p.lengths["axis"]
      /\ l["n_extcur"] = p.lengths["extcur"]
      /\ s.lasym => l["n_rbs"] = p.harmonics["rbs"] /\ l["n_zbc"] = p.harmonics["zbc"]
  BY LengthsAre
<1>5. /\ names \subseteq DOMAIN ArrayDims
      /\ {"families", "half", "full", "outcome", "provenance", "stage_history",
          "restart_iteration", "rbc", "zbs", "folded"} \subseteq names
      /\ "complement" \in names <=> s.lasym
      /\ "scalars" \in names <=> typed
      /\ typed => {"stages", "profiles", "axis", "extcur"} \subseteq names
      /\ "types" \in names <=> typed /\ layout.types
      /\ "free" \in names <=> typed /\ layout.free
      /\ "makegrid" \in names <=> typed /\ layout.free
      /\ typed /\ s.lasym => {"lasym", "complement_folded", "rbs", "zbc"} \subseteq names
  BY NamesAre DEF Shaped, StateOk
<1>6. /\ s.ns \in Nat \ {0} /\ s.modes \in Nat \ {0} /\ p.stages # 0
      /\ s.lasym \in BOOLEAN
      /\ \A v \in Vectors : p.lengths[v] \in Nat
      /\ \A x \in {"rbc", "zbs", "rbs", "zbc"} : p.harmonics[x] \in Nat
  BY DEF Shaped, StateOk
<1> HIDE DEF l, e, names, all, typed
<1>7. /\ {"ns", "mnmax", "nstages", "nrestarts", "nrbc", "nzbs", "n_boundary", "ns_half",
          "n_angles", "nstages_in"} \subseteq D
      /\ p.lengths["profiles"] > 0 => "n_profiles" \in D
      /\ p.lengths["axis"] > 0 => "n_axis" \in D
      /\ p.lengths["extcur"] > 0 => "n_extcur" \in D
      /\ s.lasym /\ p.harmonics["rbs"] > 0 => "n_rbs" \in D
      /\ s.lasym /\ p.harmonics["zbc"] > 0 => "n_zbc" \in D
  <2>1. {"ns", "mnmax", "nstages", "nrestarts", "nrbc", "nzbs", "n_boundary", "ns_half",
         "n_angles"} \subseteq D
    BY <1>4 DEF WithoutDimension, LengthNames, Only
  <2>2. "nstages_in" \in D
    BY <1>4, <1>6 DEF WithoutDimension, LengthNames, Only
  <2>3. /\ p.lengths["profiles"] > 0 => "n_profiles" \in D
        /\ p.lengths["axis"] > 0 => "n_axis" \in D
        /\ p.lengths["extcur"] > 0 => "n_extcur" \in D
    BY <1>4, <1>6 DEF WithoutDimension, LengthNames, Only, Vectors
  <2>4. /\ s.lasym /\ p.harmonics["rbs"] > 0 => "n_rbs" \in D
        /\ s.lasym /\ p.harmonics["zbc"] > 0 => "n_zbc" \in D
    BY <1>4, <1>6 DEF WithoutDimension, LengthNames, Only
  <2> QED
    BY <2>1, <2>2, <2>3, <2>4
<1> HIDE DEF D
<1>8. DOMAIN dims = D /\ \A d \in D : dims[d] = l[d]
  BY DEF Restricted
<1> HIDE DEF dims
<1>9. \A x : Has(f, x) <=> x \in names /\ ToSet(e[x].dims) \subseteq D
  BY <1>1, <1>2, <1>8 DEF Has, Restricted
<1>10. \A x : Has(f, x) => f.arrays[x] = e[x]
  <2> SUFFICES ASSUME NEW x, Has(f, x)
               PROVE  f.arrays[x] = e[x]
    OBVIOUS
  <2>1. x \in here /\ x \in names
    BY <1>1, <1>2 DEF Has, Restricted
  <2>2. f.arrays[x] = all[x]
    BY <1>1, <2>1 DEF Restricted
  <2> QED
    BY <1>2, <2>1, <2>2
<1> HIDE DEF here
<1>11. \A a, b : /\ ToSet(<<>>) = {} /\ ToSet(<<a>>) = {a} /\ ToSet(<<a, b>>) = {a, b}
  BY DEF ToSet
<1>12. \A x \in names : e[x].dims = ArrayDims[x]
  BY <1>3, <1>5
<1>13. \A x \in names : Has(f, x) <=> ToSet(ArrayDims[x]) \subseteq D
  BY <1>9, <1>12
<1>14. /\ Has(f, "families") /\ Has(f, "half") /\ Has(f, "full") /\ Has(f, "outcome")
       /\ Has(f, "provenance") /\ Has(f, "stage_history") /\ Has(f, "restart_iteration")
       /\ Has(f, "rbc") /\ Has(f, "zbs") /\ Has(f, "folded")
  <2>1. Has(f, "families") /\ Has(f, "half") /\ Has(f, "full")
    BY <1>5, <1>7, <1>11, <1>13 DEF ArrayDims
  <2>2. Has(f, "outcome") /\ Has(f, "provenance")
    BY <1>5, <1>11, <1>13 DEF ArrayDims
  <2>3. Has(f, "stage_history") /\ Has(f, "restart_iteration")
    BY <1>5, <1>7, <1>11, <1>13 DEF ArrayDims
  <2>4. Has(f, "rbc") /\ Has(f, "zbs") /\ Has(f, "folded")
    BY <1>5, <1>7, <1>11, <1>13 DEF ArrayDims
  <2> QED
    BY <2>1, <2>2, <2>3, <2>4
<1>15. /\ Has(f, "complement") <=> s.lasym
       /\ Has(f, "scalars") <=> typed
       /\ Has(f, "types") <=> typed /\ layout.types
       /\ Has(f, "free") <=> typed /\ layout.free
       /\ Has(f, "makegrid") <=> typed /\ layout.free
  <2>1. Has(f, "complement") <=> "complement" \in names
    <3>1. ToSet(ArrayDims["complement"]) \subseteq D
      BY <1>7, <1>11 DEF ArrayDims
    <3> QED
      BY <1>9, <1>13, <3>1
  <2>2. /\ Has(f, "scalars") <=> "scalars" \in names
        /\ Has(f, "types") <=> "types" \in names
        /\ Has(f, "free") <=> "free" \in names
        /\ Has(f, "makegrid") <=> "makegrid" \in names
    <3>1. /\ ToSet(ArrayDims["scalars"]) \subseteq D /\ ToSet(ArrayDims["types"]) \subseteq D
          /\ ToSet(ArrayDims["free"]) \subseteq D /\ ToSet(ArrayDims["makegrid"]) \subseteq D
      BY <1>11 DEF ArrayDims
    <3> QED
      BY <1>9, <1>13, <3>1
  <2> QED
    BY <1>5, <2>1, <2>2
<1>16. typed => Has(f, "stages")
  <2>1. ToSet(ArrayDims["stages"]) \subseteq D
    BY <1>7, <1>11 DEF ArrayDims
  <2> QED
    BY <1>5, <1>13, <2>1
<1>17. typed => \A v \in Vectors : p.lengths[v] > 0 => Has(f, v)
  <2>1. /\ p.lengths["profiles"] > 0 => ToSet(ArrayDims["profiles"]) \subseteq D
        /\ p.lengths["axis"] > 0 => ToSet(ArrayDims["axis"]) \subseteq D
        /\ p.lengths["extcur"] > 0 => ToSet(ArrayDims["extcur"]) \subseteq D
    BY <1>7, <1>11 DEF ArrayDims
  <2>2. typed => /\ p.lengths["profiles"] > 0 => Has(f, "profiles")
                 /\ p.lengths["axis"] > 0 => Has(f, "axis")
                 /\ p.lengths["extcur"] > 0 => Has(f, "extcur")
    BY <1>5, <1>13, <2>1
  <2> QED
    BY <2>2 DEF Vectors
<1>18. typed /\ s.lasym => \A x \in {"rbs", "zbc"} : p.harmonics[x] > 0 => Has(f, x)
  <2>1. s.lasym => /\ p.harmonics["rbs"] > 0 => ToSet(ArrayDims["rbs"]) \subseteq D
                   /\ p.harmonics["zbc"] > 0 => ToSet(ArrayDims["zbc"]) \subseteq D
    BY <1>7, <1>11 DEF ArrayDims
  <2>2. typed /\ s.lasym => /\ p.harmonics["rbs"] > 0 => Has(f, "rbs")
                            /\ p.harmonics["zbc"] > 0 => Has(f, "zbc")
    BY <1>5, <1>13, <2>1
  <2> QED
    BY <2>2
<1>19. /\ f.arrays["families"].value = Family(s, 0)
       /\ s.lasym => f.arrays["complement"].value = Family(s, 6)
       /\ f.arrays["half"].value = s.state /\ f.arrays["full"].value = s.state
       /\ f.arrays["stage_history"].value = Offsets(report)
       /\ Has(f, "free") => f.arrays["free"].value = p.embedded
  BY <1>3, <1>10, <1>14, <1>15
<1>20. Sheet(f, s, p, report, layout)
  BY <1>14, <1>15, <1>16, <1>17, <1>18, <1>19 DEF Sheet, typed
<1>21. \A x \in DOMAIN ArrayDims : Has(f, x) => f.arrays[x].dims = ArrayDims[x]
  BY <1>3, <1>10
<1>22. f.dims = dims
  BY <1>1
<1> QED
  BY <1>4, <1>7, <1>8, <1>14, <1>20, <1>21, <1>22

(* What an HDF5 file that was not refused holds.                             *)
LEMMA Hdf5Holds ==
  ASSUME NEW s, NEW p, NEW report, Shaped(s, p, report),
         NEW layout, layout \in NamedLayouts,
         NEW f, f = Hdf5File(s, p, report, layout), ~Refused(f)
  PROVE  LET d(x) == f.arrays[x].dims
         IN  /\ Sheet(f, s, p, report, layout)
             /\ layout.record = "typed" => Has(f, "profiles") /\ Has(f, "axis")
             /\ d("families") = <<s.ns, s.modes>>
             /\ s.lasym => d("complement") = <<s.ns, s.modes>>
             /\ d("half") = <<s.ns - 1, 1>> /\ d("full") = <<s.ns, 1>>
             /\ \A x \in {"outcome", "provenance", "scalars", "types", "free", "makegrid"} :
                  Has(f, x) => d(x) = <<>>
             /\ \A x \in {"stage_history", "stages", "profiles", "axis", "extcur", "rbc", "zbs",
                          "folded"} : Has(f, x) => d(x) = <<d(x)[1]>>
             /\ IF Has(f, "restart_iteration")
                THEN d("restart_iteration") = <<Restarts(report)>>
                ELSE Restarts(report) = 0
<1> DEFINE l == Lengths(s, p, report)
           e == EveryArray(s, p, report)
           names == ArrayNames(s, layout)
           all == AllArrays(s, p, report, layout)
           Extents(x) == [d \in DOMAIN all[x].dims |-> l[all[x].dims[d]]]
           omitted == {x \in {"restart_iteration", "rbc", "zbs"} : Extents(x) = <<0>>}
           typed == layout.record = "typed"
<1>1. f.arrays = [x \in DOMAIN all \ omitted |-> Array(Extents(x), all[x].value)]
  <2>1. Refused(NoArrays)
    BY DEF Refused, NoArrays
  <2>2. CASE ~Written(s, p)
    BY <2>1, <2>2 DEF Hdf5File
  <2>3. CASE Written(s, p)
    BY <2>3 DEF Hdf5File
  <2> QED
    BY <2>2, <2>3
<1>2. DOMAIN all = names /\ \A x \in names : all[x] = e[x]
  BY DEF AllArrays, EveryArray, Restricted
<1>3. /\ \A x \in DOMAIN ArrayDims : e[x].dims = ArrayDims[x]
      /\ e["families"].value = Family(s, 0) /\ e["complement"].value = Family(s, 6)
      /\ e["half"].value = s.state /\ e["full"].value = s.state
      /\ e["stage_history"].value = Offsets(report)
      /\ e["free"].value = p.embedded
  BY EveryArrayIs
<1>4. /\ DOMAIN l = LengthNames \ Only(~s.lasym, {"n_rbs", "n_zbc"})
      /\ l["ns"] = s.ns /\ l["mnmax"] = s.modes /\ l["nstages"] = Len(report)
      /\ l["nrestarts"] = Restarts(report) /\ l["nrbc"] = p.harmonics["rbc"]
      /\ l["nzbs"] = p.harmonics["zbs"] /\ l["ns_half"] = s.ns - 1
      /\ l["n_angles"] = 1 /\ l["nstages_in"] = p.stages
      /\ l["n_profiles"] = p.lengths["profiles"] /\ l["n_axis"] = p.lengths["axis"]
      /\ l["n_extcur"] = p.lengths["extcur"]
      /\ s.lasym => l["n_rbs"] = p.harmonics["rbs"] /\ l["n_zbc"] = p.harmonics["zbc"]
  BY LengthsAre
<1>5. /\ names \subseteq DOMAIN ArrayDims
      /\ {"families", "half", "full", "outcome", "provenance", "stage_history",
          "restart_iteration", "rbc", "zbs", "folded"} \subseteq names
      /\ "complement" \in names <=> s.lasym
      /\ "scalars" \in names <=> typed
      /\ typed => {"stages", "profiles", "axis", "extcur"} \subseteq names
      /\ "types" \in names <=> typed /\ layout.types
      /\ "free" \in names <=> typed /\ layout.free
      /\ "makegrid" \in names <=> typed /\ layout.free
      /\ typed /\ s.lasym => {"lasym", "complement_folded", "rbs", "zbc"} \subseteq names
  BY NamesAre DEF Shaped, StateOk
<1>6. /\ s.ns \in Nat \ {0} /\ s.modes \in Nat \ {0}
      /\ s.lasym \in BOOLEAN /\ p.harmonics["rbc"] # 0
      /\ ~s.lasym => p.harmonics["zbs"] # 0
  BY DEF Shaped, StateOk
<1> HIDE DEF l, e, names, all, typed
<1>7. \A a, b : /\ [d \in DOMAIN <<>> |-> l[<<>>[d]]] = <<>>
                /\ [d \in DOMAIN <<a>> |-> l[<<a>>[d]]] = <<l[a]>>
                /\ [d \in DOMAIN <<a, b>> |-> l[<<a, b>>[d]]] = <<l[a], l[b]>>
  <2> TAKE a, b
  <2>1. [d \in DOMAIN <<>> |-> l[<<>>[d]]] = <<>>
    OBVIOUS
  <2>2. [d \in DOMAIN <<a>> |-> l[<<a>>[d]]] = <<l[a]>>
    OBVIOUS
  <2>3. [d \in DOMAIN <<a, b>> |-> l[<<a, b>>[d]]] = <<l[a], l[b]>>
    OBVIOUS
  <2> QED
    BY <2>1, <2>2, <2>3
<1>8. \A x \in names : Extents(x) = [d \in DOMAIN ArrayDims[x] |-> l[ArrayDims[x][d]]]
  BY <1>2, <1>3, <1>5
<1> DEFINE Measured(dims) == [d \in DOMAIN dims |-> l[dims[d]]]
<1>9. \A x \in names : Extents(x) = Measured(ArrayDims[x])
  BY <1>8
<1>10. /\ Measured(<<>>) = <<>>
       /\ \A a, b : Measured(<<a>>) = <<l[a]>> /\ Measured(<<a, b>>) = <<l[a], l[b]>>
  BY <1>7
<1> HIDE DEF Measured, Extents
<1>11. omitted \subseteq {"restart_iteration", "rbc", "zbs"}
  OBVIOUS
<1>12. /\ "restart_iteration" \in omitted => Restarts(report) = 0
       /\ "rbc" \notin omitted
       /\ ~s.lasym => "zbs" \notin omitted
  <2>1. \A a : <<a>> = <<0>> => a = 0
    OBVIOUS
  <2>2. /\ Extents("restart_iteration") = <<l["nrestarts"]>>
        /\ Extents("rbc") = <<l["nrbc"]>> /\ Extents("zbs") = <<l["nzbs"]>>
    BY <1>5, <1>9, <1>10 DEF ArrayDims
  <2> QED
    BY <1>4, <1>6, <2>1, <2>2
<1> HIDE DEF omitted
<1>13. \A x : Has(f, x) <=> x \in names \ omitted
  BY <1>1, <1>2 DEF Has
<1>14. \A x \in names \ omitted :
         /\ f.arrays[x].dims = Measured(ArrayDims[x])
         /\ f.arrays[x].value = e[x].value
  <2>1. \A d, v : Array(d, v).dims = d /\ Array(d, v).value = v
    BY DEF Array
  <2> QED
    BY <1>1, <1>2, <1>9, <2>1
<1>15. /\ \A x \in {"families", "half", "full", "outcome", "provenance", "stage_history",
                    "rbc", "folded"} : Has(f, x)
       /\ ~s.lasym => Has(f, "zbs")
  BY <1>5, <1>11, <1>12, <1>13
<1>16. /\ Has(f, "complement") <=> s.lasym
       /\ Has(f, "scalars") <=> typed
       /\ Has(f, "types") <=> typed /\ layout.types
       /\ Has(f, "free") <=> typed /\ layout.free
       /\ Has(f, "makegrid") <=> typed /\ layout.free
       /\ typed => Has(f, "stages") /\ Has(f, "profiles") /\ Has(f, "axis")
                   /\ Has(f, "extcur")
       /\ typed /\ s.lasym => Has(f, "rbs") /\ Has(f, "zbc")
  BY <1>5, <1>11, <1>13
<1>17. /\ f.arrays["families"].value = Family(s, 0)
       /\ s.lasym => f.arrays["complement"].value = Family(s, 6)
       /\ f.arrays["half"].value = s.state /\ f.arrays["full"].value = s.state
       /\ f.arrays["stage_history"].value = Offsets(report)
       /\ Has(f, "free") => f.arrays["free"].value = p.embedded
  BY <1>3, <1>13, <1>14, <1>15, <1>16
<1>18. Sheet(f, s, p, report, layout)
  BY <1>15, <1>16, <1>17 DEF Sheet, typed, Vectors
<1>19. /\ f.arrays["families"].dims = <<s.ns, s.modes>>
       /\ s.lasym => f.arrays["complement"].dims = <<s.ns, s.modes>>
       /\ f.arrays["half"].dims = <<s.ns - 1, 1>> /\ f.arrays["full"].dims = <<s.ns, 1>>
  BY <1>4, <1>10, <1>13, <1>14, <1>15, <1>16 DEF ArrayDims
<1>20. \A x \in {"outcome", "provenance", "scalars", "types", "free", "makegrid"} :
         Has(f, x) => f.arrays[x].dims = <<>>
  <2>1. \A x \in {"outcome", "provenance", "scalars", "types", "free", "makegrid"} :
          ArrayDims[x] = <<>>
    BY DEF ArrayDims
  <2> QED
    BY <1>10, <1>13, <1>14, <2>1
<1>21. \A x \in {"stage_history", "stages", "profiles", "axis", "extcur", "rbc", "zbs",
                 "folded"} : Has(f, x) => f.arrays[x].dims = <<f.arrays[x].dims[1]>>
  <2>1. \A x \in {"stage_history", "stages", "profiles", "axis", "extcur", "rbc", "zbs",
                  "folded"} : \E a : ArrayDims[x] = <<a>>
    BY DEF ArrayDims
  <2>2. \A a : <<a>>[1] = a
    OBVIOUS
  <2> SUFFICES ASSUME NEW x \in {"stage_history", "stages", "profiles", "axis", "extcur",
                                 "rbc", "zbs", "folded"}, Has(f, x)
               PROVE  f.arrays[x].dims = <<f.arrays[x].dims[1]>>
    OBVIOUS
  <2>3. PICK a : ArrayDims[x] = <<a>>
    BY <2>1
  <2>4. f.arrays[x].dims = <<l[a]>>
    BY <1>10, <1>13, <1>14, <2>3
  <2> QED
    BY <2>2, <2>4
<1>22. IF Has(f, "restart_iteration")
       THEN f.arrays["restart_iteration"].dims = <<Restarts(report)>>
       ELSE Restarts(report) = 0
  <2>1. ArrayDims["restart_iteration"] = <<"nrestarts">>
    BY DEF ArrayDims
  <2>2. CASE "restart_iteration" \in names \ omitted
    <3>1. f.arrays["restart_iteration"].dims = Measured(<<"nrestarts">>)
      BY <1>14, <2>1, <2>2
    <3>2. Measured(<<"nrestarts">>) = <<l["nrestarts"]>>
      BY <1>10
    <3> QED
      BY <1>4, <1>13, <2>2, <3>1, <3>2
  <2>3. CASE "restart_iteration" \in omitted
    BY <1>12, <1>13, <2>3
  <2> QED
    BY <1>5, <2>2, <2>3
<1> QED
  BY <1>16, <1>18, <1>19, <1>20, <1>21, <1>22 DEF typed

-----------------------------------------------------------------------------
(* Reading arrays by name: once it read N, a reader holds the values of N,   *)
(* and the report if it has worked it out.                                   *)
GotNamed(r, f, report, N) ==
  /\ Reader(r)
  /\ r.ok => /\ DOMAIN r.got = N
             /\ \A x \in N \ {"report"} : r.got[x] = f.arrays[x].value
             /\ "report" \in N => r.got["report"] = report

(* Nothing read, one array fetched, one that may be there, a check.          *)
LEMMA StartNamed ==
  \A f, report : GotNamed(Start, f, report, {})
BY StartIsReader DEF GotNamed

LEMMA Fetched ==
  ASSUME NEW r, NEW f, NEW report, NEW N, GotNamed(r, f, report, N),
         NEW x, x # "report", NEW dims
  PROVE  LET t == Fetch(r, f, x, dims)
         IN  /\ GotNamed(t, f, report, N \cup {x})
             /\ t.ok <=> r.ok /\ Has(f, x) /\ f.arrays[x].dims = dims
<1> DEFINE t == Fetch(r, f, x, dims)
           fine == r.ok /\ Has(f, x) /\ f.arrays[x].dims = dims
           news == [y \in {x} |-> f.arrays[x].value]
<1>1. Reader(r)
  BY DEF GotNamed
<1>2. CASE ~fine
  <2>1. t = [r EXCEPT !.ok = FALSE]
    BY <1>2 DEF Fetch
  <2> HIDE DEF t
  <2>2. Reader(t) /\ ~t.ok
    BY <1>1, <2>1, Failing
  <2> QED
    BY <1>2, <2>2 DEF GotNamed, t
<1>3. CASE fine
  <2>1. t = [r EXCEPT !.got = Over(news, @)]
    BY <1>3 DEF Fetch
  <2>2. r.ok /\ r.at \in Nat /\ r = [ok |-> r.ok, at |-> r.at, got |-> r.got]
    BY <1>1, <1>3 DEF Reader
  <2> DEFINE got == Over(news, r.got)
  <2> HIDE DEF t, got, news
  <2>3. t.ok = r.ok /\ t.at = r.at /\ t.got = got /\ t = [ok |-> t.ok, at |-> t.at, got |-> t.got]
    BY <2>1, <2>2 DEF got
  <2>4. t.ok /\ Reader(t)
    BY <2>2, <2>3 DEF Reader
  <2>5. DOMAIN news = {x} /\ news[x] = f.arrays[x].value
    BY DEF news
  <2>6. /\ DOMAIN r.got = N
        /\ \A y \in N \ {"report"} : r.got[y] = f.arrays[y].value
        /\ "report" \in N => r.got["report"] = report
    BY <2>2 DEF GotNamed
  <2>7. /\ DOMAIN got = N \cup {x}
        /\ got[x] = news[x] /\ \A y \in N \ {x} : got[y] = r.got[y]
    BY ONLY <2>5, <2>6 DEF got, Over
  <2>8. /\ DOMAIN t.got = N \cup {x}
        /\ \A y \in (N \cup {x}) \ {"report"} : t.got[y] = f.arrays[y].value
        /\ "report" \in N \cup {x} => t.got["report"] = report
    BY <2>3, <2>5, <2>6, <2>7
  <2> QED
    BY <1>3, <2>4, <2>8 DEF GotNamed, t
<1> QED
  BY <1>2, <1>3

LEMMA FetchedIf ==
  ASSUME NEW r, NEW f, NEW report, NEW N, GotNamed(r, f, report, N),
         NEW x, x # "report", NEW dims, NEW c \in BOOLEAN
  PROVE  LET t == FetchIf(c, r, f, x, dims)
         IN  /\ GotNamed(t, f, report, N \cup Only(c, {x}))
             /\ t.ok <=> r.ok /\ (c => Has(f, x) /\ f.arrays[x].dims = dims)
<1>1. CASE c
  <2>1. FetchIf(c, r, f, x, dims) = Fetch(r, f, x, dims)
    BY <1>1 DEF FetchIf
  <2>2. Only(c, {x}) = {x}
    BY <1>1 DEF Only
  <2>3. LET t == Fetch(r, f, x, dims)
        IN  /\ GotNamed(t, f, report, N \cup {x})
            /\ t.ok <=> r.ok /\ Has(f, x) /\ f.arrays[x].dims = dims
    BY Fetched
  <2> QED
    BY <1>1, <2>1, <2>2, <2>3
<1>2. CASE ~c
  <2>1. FetchIf(c, r, f, x, dims) = r
    BY <1>2 DEF FetchIf
  <2>2. N \cup Only(c, {x}) = N
    BY <1>2 DEF Only
  <2> QED
    BY <1>2, <2>1, <2>2
<1> QED
  BY <1>1, <1>2

LEMMA DemandedNamed ==
  ASSUME NEW r, NEW f, NEW report, NEW N, GotNamed(r, f, report, N),
         NEW c \in BOOLEAN
  PROVE  LET t == Demand(r, c)
         IN  GotNamed(t, f, report, N) /\ (t.ok <=> r.ok /\ c)
<1> DEFINE t == Demand(r, c)
<1>1. Reader(r)
  BY DEF GotNamed
<1>2. Reader(t) /\ t.ok = (r.ok /\ c) /\ t.got = r.got
  BY <1>1, Demanded
<1> HIDE DEF t
<1>3. r.ok \in BOOLEAN
  BY <1>1 DEF Reader
<1>4. t.ok <=> r.ok /\ c
  BY <1>2, <1>3
<1>5. GotNamed(t, f, report, N)
  BY <1>2, <1>4 DEF GotNamed
<1> QED
  BY <1>4, <1>5 DEF t

(* The restarts of the stages, worked out from their offsets.                *)
LEMMA ReportNamed ==
  ASSUME NEW r, NEW f, NEW report \in Seq(Nat), NEW N, GotNamed(r, f, report, N),
         "stage_history" \in N, f.arrays["stage_history"].value = Offsets(report)
  PROVE  LET t == WithReport(r, Restarts(report))
         IN  GotNamed(t, f, report, N \cup {"report"}) /\ (t.ok <=> r.ok)
<1> DEFINE n == Restarts(report)
           offsets == Got(r, "stage_history", <<>>)
           c == r.ok /\ OffsetsValid(offsets, n)
           valid == Demand(r, c)
           t == WithReport(r, n)
<1>1. t = IF ~valid.ok THEN valid
          ELSE [valid EXCEPT !.got =
                  Over([report |-> ReportOf(valid.got["stage_history"], n)], @)]
  BY DEF WithReport
<1>2. r.ok \in BOOLEAN /\ Reader(r)
  BY DEF GotNamed, Reader
<1>3. c \in BOOLEAN
  OBVIOUS
<1> HIDE DEF c
<1>4. GotNamed(valid, f, report, N) /\ (valid.ok <=> r.ok /\ c)
  BY <1>3, DemandedNamed
<1> HIDE DEF valid, t
<1>5. CASE ~r.ok
  <2>1. t = valid /\ ~t.ok /\ Reader(t)
    BY <1>1, <1>4, <1>5 DEF GotNamed
  <2> QED
    BY <1>5, <2>1 DEF GotNamed, t
<1>6. CASE r.ok
  <2>1. /\ DOMAIN r.got = N
        /\ r.got["stage_history"] = Offsets(report)
    BY <1>6 DEF GotNamed
  <2>2. offsets = Offsets(report)
    BY <2>1 DEF Got
  <2>3. c
    BY <1>6, <2>2, OffsetsReadBack DEF c
  <2>4. valid.ok
    BY <1>4, <1>6, <2>3
  <2>5. /\ DOMAIN valid.got = N
        /\ \A x \in N \ {"report"} : valid.got[x] = f.arrays[x].value
        /\ valid.at \in Nat /\ valid = [ok |-> valid.ok, at |-> valid.at, got |-> valid.got]
    BY <1>4, <2>4 DEF GotNamed, Reader
  <2> DEFINE back == ReportOf(valid.got["stage_history"], n)
             news == [report |-> back]
             got == Over(news, valid.got)
  <2>6. back = report
    <3>1. valid.got["stage_history"] = Offsets(report)
      BY <2>5
    <3> QED
      BY <3>1, OffsetsReadBack
  <2>7. t = [valid EXCEPT !.got = got]
    BY <1>1, <2>4
  <2> HIDE DEF back
  <2>8. DOMAIN news = {"report"} /\ news["report"] = report
    BY <2>6
  <2> HIDE DEF news, got
  <2>9. t.ok = valid.ok /\ t.at = valid.at /\ t.got = got
        /\ t = [ok |-> t.ok, at |-> t.at, got |-> t.got]
    BY <2>5, <2>7
  <2>10. t.ok /\ Reader(t)
    BY <2>4, <2>5, <2>9 DEF Reader
  <2>11. /\ DOMAIN got = N \cup {"report"}
         /\ got["report"] = news["report"]
         /\ \A y \in N \ {"report"} : got[y] = valid.got[y]
    BY ONLY <2>5, <2>8 DEF got, Over
  <2>12. GotNamed(t, f, report, N \cup {"report"})
    BY <2>5, <2>8, <2>9, <2>10, <2>11 DEF GotNamed
  <2> QED
    BY <1>6, <2>10, <2>12 DEF t
<1> QED
  BY <1>2, <1>5, <1>6

StateArrayNames(s) == {"families", "half", "full"} \cup Only(s.lasym, {"complement"})

(* The state, in either format.                                              *)
LEMMA StateNamed ==
  ASSUME NEW s, s.lasym \in BOOLEAN, NEW f, NEW report, NEW r, GotNamed(r, f, report, {}),
         NEW surfaces, NEW modes, NEW half, NEW angles,
         Has(f, "families"), Has(f, "half"), Has(f, "full"),
         Has(f, "complement") <=> s.lasym,
         f.arrays["families"].dims = <<surfaces, modes>>,
         s.lasym => f.arrays["complement"].dims = <<surfaces, modes>>,
         f.arrays["half"].dims = <<half, angles>>, f.arrays["full"].dims = <<surfaces, angles>>
  PROVE  LET t == StateOf(r, f, surfaces, modes, half, angles)
         IN  GotNamed(t, f, report, StateArrayNames(s)) /\ (t.ok <=> r.ok)
<1> DEFINE a == Fetch(r, f, "families", <<surfaces, modes>>)
           b == FetchIf(Has(f, "complement"), a, f, "complement", <<surfaces, modes>>)
           same == (Has(f, "half") <=> Has(f, "full"))
           c == Demand(b, same)
           d == FetchIf(Has(f, "half"), c, f, "half", <<half, angles>>)
           e == FetchIf(Has(f, "full"), d, f, "full", <<surfaces, angles>>)
           NA == {} \cup {"families"}
           NB == NA \cup Only(Has(f, "complement"), {"complement"})
           ND == NB \cup Only(Has(f, "half"), {"half"})
           NE == ND \cup Only(Has(f, "full"), {"full"})
<1>1. StateOf(r, f, surfaces, modes, half, angles) = e
  BY DEF StateOf
<1>2. \A x : Has(f, x) \in BOOLEAN
  BY DEF Has
<1>3. GotNamed(a, f, report, NA) /\ (a.ok <=> r.ok)
  BY Fetched
<1> HIDE DEF a, NA
<1>4. GotNamed(b, f, report, NB) /\ (b.ok <=> a.ok)
  BY <1>2, <1>3, FetchedIf
<1> HIDE DEF b, NB
<1>5. same /\ same \in BOOLEAN
  OBVIOUS
<1> HIDE DEF same
<1>6. GotNamed(c, f, report, NB) /\ (c.ok <=> b.ok)
  BY <1>4, <1>5, DemandedNamed
<1> HIDE DEF c
<1>7. GotNamed(d, f, report, ND) /\ (d.ok <=> c.ok)
  BY <1>2, <1>6, FetchedIf
<1> HIDE DEF d, ND
<1>8. GotNamed(e, f, report, NE) /\ (e.ok <=> d.ok)
  BY <1>2, <1>7, FetchedIf
<1> HIDE DEF e
<1>9. NE = StateArrayNames(s)
  BY DEF NE, ND, NB, NA, StateArrayNames, Only
<1> QED
  BY <1>1, <1>3, <1>4, <1>6, <1>7, <1>8, <1>9

ReportArrayNames(restarted) ==
  {"outcome", "provenance", "stage_history", "report"}
    \cup Only(restarted, {"restart_iteration"})

(* The report, in either format.                                             *)
LEMMA NetcdfReportNamed ==
  ASSUME NEW f, NEW report \in Seq(Nat), NEW N, NEW r, GotNamed(r, f, report, N),
         Has(f, "outcome"), Has(f, "provenance"), Has(f, "stage_history"),
         Has(f, "restart_iteration"),
         \A x \in DOMAIN ArrayDims : Has(f, x) => f.arrays[x].dims = ArrayDims[x],
         {"nstages", "nrestarts"} \subseteq DOMAIN f.dims,
         f.dims["nrestarts"] = Restarts(report),
         f.arrays["stage_history"].value = Offsets(report)
  PROVE  LET t == NetcdfReport(r, f)
         IN  GotNamed(t, f, report, N \cup ReportArrayNames(TRUE)) /\ (t.ok <=> r.ok)
<1> DEFINE p == Fetch(r, f, "outcome", <<>>)
           o == Fetch(p, f, "provenance", <<>>)
           there == o.ok /\ {"nstages", "nrestarts"} \subseteq DOMAIN f.dims
           d == Demand(o, there)
           h == Fetch(d, f, "stage_history", <<"nstages">>)
           i == Fetch(h, f, "restart_iteration", <<"nrestarts">>)
           w == WithReport(i, f.dims["nrestarts"])
           NP == N \cup {"outcome"}
           NO == NP \cup {"provenance"}
           NH == NO \cup {"stage_history"}
           NI == NH \cup {"restart_iteration"}
<1>1. NetcdfReport(r, f) = IF i.ok THEN w ELSE i
  BY DEF NetcdfReport
<1>2. /\ f.arrays["outcome"].dims = <<>> /\ f.arrays["provenance"].dims = <<>>
      /\ f.arrays["stage_history"].dims = <<"nstages">>
      /\ f.arrays["restart_iteration"].dims = <<"nrestarts">>
  BY DEF ArrayDims
<1>3. GotNamed(p, f, report, NP) /\ (p.ok <=> r.ok)
  BY <1>2, Fetched
<1> HIDE DEF p, NP
<1>4. GotNamed(o, f, report, NO) /\ (o.ok <=> p.ok)
  BY <1>2, <1>3, Fetched
<1> HIDE DEF o, NO
<1>5. there \in BOOLEAN /\ (there <=> o.ok)
  <2>1. o.ok \in BOOLEAN
    BY <1>4 DEF GotNamed, Reader
  <2> QED
    BY <2>1
<1> HIDE DEF there
<1>6. GotNamed(d, f, report, NO) /\ (d.ok <=> o.ok)
  BY <1>4, <1>5, DemandedNamed
<1> HIDE DEF d
<1>7. GotNamed(h, f, report, NH) /\ (h.ok <=> d.ok)
  BY <1>2, <1>6, Fetched
<1> HIDE DEF h
<1>8. GotNamed(i, f, report, NI) /\ (i.ok <=> h.ok)
  BY <1>2, <1>7, Fetched
<1> HIDE DEF i
<1>9. "stage_history" \in NI
  OBVIOUS
<1> HIDE DEF NI
<1>10. GotNamed(w, f, report, NI \cup {"report"}) /\ (w.ok <=> i.ok)
  <2>1. w = WithReport(i, Restarts(report))
    OBVIOUS
  <2>2. LET t == WithReport(i, Restarts(report))
        IN  GotNamed(t, f, report, NI \cup {"report"}) /\ (t.ok <=> i.ok)
    BY <1>8, <1>9, ReportNamed
  <2> QED
    BY <2>1, <2>2
<1> HIDE DEF w
<1>11. NI \cup {"report"} = N \cup ReportArrayNames(TRUE)
  BY DEF NI, NH, NO, NP, ReportArrayNames, Only
<1>12. ~i.ok => GotNamed(i, f, report, N \cup ReportArrayNames(TRUE))
  BY <1>8 DEF GotNamed
<1> QED
  BY <1>1, <1>3, <1>4, <1>6, <1>7, <1>8, <1>10, <1>11, <1>12

LEMMA Hdf5ReportNamed ==
  ASSUME NEW f, NEW report \in Seq(Nat), NEW N, NEW r, GotNamed(r, f, report, N),
         Has(f, "outcome"), Has(f, "provenance"), Has(f, "stage_history"),
         f.arrays["outcome"].dims = <<>>, f.arrays["provenance"].dims = <<>>,
         f.arrays["stage_history"].dims = <<f.arrays["stage_history"].dims[1]>>,
         IF Has(f, "restart_iteration")
         THEN f.arrays["restart_iteration"].dims = <<Restarts(report)>>
         ELSE Restarts(report) = 0,
         f.arrays["stage_history"].value = Offsets(report)
  PROVE  LET t == Hdf5Report(r, f)
         IN  /\ GotNamed(t, f, report, N \cup ReportArrayNames(Restarts(report) > 0))
             /\ t.ok <=> r.ok
<1> DEFINE p == Fetch(r, f, "outcome", <<>>)
           o == Fetch(p, f, "provenance", <<>>)
           h == Fetch(o, f, "stage_history", <<Extent(f, "stage_history")>>)
           m == IF Has(f, "restart_iteration") THEN Extent(f, "restart_iteration") ELSE 0
           n == Restarts(report)
           i == FetchIf(n > 0, h, f, "restart_iteration", <<n>>)
           w == WithReport(i, n)
           NP == N \cup {"outcome"}
           NO == NP \cup {"provenance"}
           NH == NO \cup {"stage_history"}
           NI == NH \cup Only(n > 0, {"restart_iteration"})
<1>1. n \in Nat
  BY OffsetsReadBack
<1>2. m = n
  <2>1. <<n>>[1] = n
    OBVIOUS
  <2> QED
    BY <2>1 DEF Extent
<1>3. Hdf5Report(r, f) = WithReport(FetchIf(m > 0, h, f, "restart_iteration", <<m>>), m)
  BY DEF Hdf5Report
<1> HIDE DEF m, n
<1>4. Hdf5Report(r, f) = w
  BY <1>2, <1>3
<1>5. GotNamed(p, f, report, NP) /\ (p.ok <=> r.ok)
  BY Fetched
<1> HIDE DEF p, NP
<1>6. GotNamed(o, f, report, NO) /\ (o.ok <=> p.ok)
  BY <1>5, Fetched
<1> HIDE DEF o, NO
<1>7. GotNamed(h, f, report, NH) /\ (h.ok <=> o.ok)
  <2>1. <<Extent(f, "stage_history")>> = f.arrays["stage_history"].dims
    BY DEF Extent
  <2> QED
    BY <1>6, <2>1, Fetched
<1>8. "stage_history" \in NI
  OBVIOUS
<1> HIDE DEF h, NH
<1>9. GotNamed(i, f, report, NI) /\ (i.ok <=> h.ok)
  <2>1. n > 0 => Has(f, "restart_iteration") /\ f.arrays["restart_iteration"].dims = <<n>>
    BY <1>1 DEF n
  <2>2. (n > 0) \in BOOLEAN
    BY <1>1
  <2> QED
    BY <1>7, <2>1, <2>2, FetchedIf
<1> HIDE DEF i, NI
<1>10. GotNamed(w, f, report, NI \cup {"report"}) /\ (w.ok <=> i.ok)
  <2>1. w = WithReport(i, Restarts(report))
    BY DEF n
  <2>2. LET t == WithReport(i, Restarts(report))
        IN  GotNamed(t, f, report, NI \cup {"report"}) /\ (t.ok <=> i.ok)
    BY <1>8, <1>9, ReportNamed
  <2> QED
    BY <2>1, <2>2
<1> HIDE DEF w
<1>11. NI \cup {"report"} = N \cup ReportArrayNames(Restarts(report) > 0)
  BY DEF NI, NH, NO, NP, n, ReportArrayNames, Only
<1> QED
  BY <1>4, <1>5, <1>6, <1>7, <1>9, <1>10, <1>11

ScalarArrayNames(f, p) ==
  {"scalars"} \cup Only(Has(f, "types"), {"types"}) \cup Only(Has(f, "free"), {"free"})
    \cup Only(Has(f, "free") /\ p.embedded, {"makegrid"})

(* The scalars of the input record, and what they announce.                  *)
LEMMA ScalarsNamed ==
  ASSUME NEW f, NEW p, p.embedded \in BOOLEAN, NEW report, NEW N, "free" \notin N,
         NEW r, GotNamed(r, f, report, N), Has(f, "scalars"),
         Has(f, "makegrid") <=> Has(f, "free"),
         \A x \in {"scalars", "types", "free", "makegrid"} :
           Has(f, x) => f.arrays[x].dims = <<>>,
         Has(f, "free") => f.arrays["free"].value = p.embedded
  PROVE  LET t == ScalarsOf(r, f)
         IN  GotNamed(t, f, report, N \cup ScalarArrayNames(f, p)) /\ (t.ok <=> r.ok)
<1> DEFINE a == Fetch(r, f, "scalars", <<>>)
           b == FetchIf(Has(f, "types"), a, f, "types", <<>>)
           c == FetchIf(Has(f, "free"), b, f, "free", <<>>)
           k == Got(c, "free", FALSE)
           t == FetchIf(k, c, f, "makegrid", <<>>)
           grid == Has(f, "free") /\ p.embedded
           NA == N \cup {"scalars"}
           NB == NA \cup Only(Has(f, "types"), {"types"})
           NC == NB \cup Only(Has(f, "free"), {"free"})
           NT == NC \cup Only(grid, {"makegrid"})
<1>1. ScalarsOf(r, f) = t
  BY DEF ScalarsOf
<1>2. \A x : Has(f, x) \in BOOLEAN
  BY DEF Has
<1>3. GotNamed(a, f, report, NA) /\ (a.ok <=> r.ok)
  BY Fetched
<1> HIDE DEF a, NA
<1>4. GotNamed(b, f, report, NB) /\ (b.ok <=> a.ok)
  BY <1>2, <1>3, FetchedIf
<1> HIDE DEF b, NB
<1>5. GotNamed(c, f, report, NC) /\ (c.ok <=> b.ok)
  <2>1. Has(f, "free") => f.arrays["free"].dims = <<>>
    OBVIOUS
  <2>2. /\ GotNamed(FetchIf(Has(f, "free"), b, f, "free", <<>>), f, report,
                    NB \cup Only(Has(f, "free"), {"free"}))
        /\ FetchIf(Has(f, "free"), b, f, "free", <<>>).ok
             <=> b.ok /\ (Has(f, "free") => Has(f, "free") /\ f.arrays["free"].dims = <<>>)
    BY <1>2, <1>4, FetchedIf
  <2> QED
    BY <2>1, <2>2
<1>6. "free" \in NC <=> Has(f, "free")
  BY DEF NC, NB, NA, Only
<1>7. grid \in BOOLEAN /\ (grid => Has(f, "makegrid") /\ f.arrays["makegrid"].dims = <<>>)
  BY <1>2
<1> HIDE DEF c, NC
<1>8. c.ok => k = grid
  <2> SUFFICES ASSUME c.ok
               PROVE  k = grid
    OBVIOUS
  <2>1. DOMAIN c.got = NC /\ ("free" \in NC => c.got["free"] = f.arrays["free"].value)
    BY <1>5 DEF GotNamed
  <2>2. CASE Has(f, "free")
    BY <1>6, <2>1, <2>2 DEF Got
  <2>3. CASE ~Has(f, "free")
    BY <1>6, <2>1, <2>3 DEF Got
  <2> QED
    BY <2>2, <2>3
<1> HIDE DEF k, grid, t
<1>9. ASSUME c.ok
      PROVE  GotNamed(t, f, report, NT) /\ (t.ok <=> c.ok)
  <2>1. t = FetchIf(grid, c, f, "makegrid", <<>>)
    BY <1>8, <1>9 DEF t
  <2>2. GotNamed(FetchIf(grid, c, f, "makegrid", <<>>), f, report,
                 NC \cup Only(grid, {"makegrid"}))
        /\ (FetchIf(grid, c, f, "makegrid", <<>>).ok <=> c.ok)
    BY <1>5, <1>7, FetchedIf
  <2> QED
    BY <2>1, <2>2
<1>10. ASSUME ~c.ok
       PROVE  GotNamed(t, f, report, NT) /\ (t.ok <=> c.ok)
  <2>1. t = c \/ t = Fetch(c, f, "makegrid", <<>>)
    BY DEF t, FetchIf
  <2>2. GotNamed(Fetch(c, f, "makegrid", <<>>), f, report, NC \cup {"makegrid"})
        /\ (Fetch(c, f, "makegrid", <<>>).ok => c.ok)
    BY <1>5, Fetched
  <2>3. ~t.ok /\ Reader(t)
    BY <1>5, <1>10, <2>1, <2>2 DEF GotNamed
  <2> QED
    BY <1>10, <2>3 DEF GotNamed
<1> HIDE DEF NT
<1>11. NT = N \cup ScalarArrayNames(f, p)
  BY DEF NT, NC, NB, NA, grid, ScalarArrayNames
<1>12. GotNamed(t, f, report, NT) /\ (t.ok <=> c.ok)
  BY <1>9, <1>10
<1> QED
  BY <1>1, <1>3, <1>4, <1>5, <1>11, <1>12

RecordArrayNames(f, p) ==
  ScalarArrayNames(f, p) \cup {"rbc", "zbs", "folded"}
    \cup Only(Has(f, "profiles"), {"profiles"}) \cup Only(Has(f, "axis"), {"axis"})
    \cup Only(Has(f, "extcur"), {"extcur"}) \cup Only(Has(f, "stages"), {"stages"})

(* The input record, in either format.                                       *)
LEMMA NetcdfRecordNamed ==
  ASSUME NEW f, NEW p, p.embedded \in BOOLEAN, NEW report, NEW N, "free" \notin N,
         NEW r, GotNamed(r, f, report, N), Has(f, "scalars"),
         Has(f, "makegrid") <=> Has(f, "free"),
         Has(f, "free") => f.arrays["free"].value = p.embedded,
         \A x \in DOMAIN ArrayDims : Has(f, x) => f.arrays[x].dims = ArrayDims[x],
         Has(f, "rbc"), Has(f, "zbs"), Has(f, "folded")
  PROVE  LET t == NetcdfRecord(r, f)
         IN  GotNamed(t, f, report, N \cup RecordArrayNames(f, p)) /\ (t.ok <=> r.ok)
<1> DEFINE a == ScalarsOf(r, f)
           b == FetchIf(Has(f, "profiles"), a, f, "profiles", <<"n_profiles">>)
           c == FetchIf(Has(f, "axis"), b, f, "axis", <<"n_axis">>)
           d == FetchIf(Has(f, "extcur"), c, f, "extcur", <<"n_extcur">>)
           e == FetchIf(Has(f, "stages"), d, f, "stages", <<"nstages_in">>)
           g == Fetch(e, f, "rbc", <<"nrbc">>)
           h == Fetch(g, f, "zbs", <<"nzbs">>)
           i == Fetch(h, f, "folded", <<"n_boundary">>)
           NA == N \cup ScalarArrayNames(f, p)
           NB == NA \cup Only(Has(f, "profiles"), {"profiles"})
           NC == NB \cup Only(Has(f, "axis"), {"axis"})
           ND == NC \cup Only(Has(f, "extcur"), {"extcur"})
           NE == ND \cup Only(Has(f, "stages"), {"stages"})
           NG == NE \cup {"rbc"}
           NH == NG \cup {"zbs"}
           NI == NH \cup {"folded"}
<1>1. NetcdfRecord(r, f) = i
  <2>1. InputLength("profiles") = "n_profiles" /\ InputLength("axis") = "n_axis"
        /\ InputLength("extcur") = "n_extcur"
    BY DEF InputLength
  <2> QED
    BY <2>1 DEF NetcdfRecord, Listed
<1>2. \A x : Has(f, x) \in BOOLEAN
  BY DEF Has
<1>p. Has(f, "profiles") => f.arrays["profiles"].dims = <<"n_profiles">>
  BY DEF ArrayDims
<1>x. Has(f, "axis") => f.arrays["axis"].dims = <<"n_axis">>
  BY DEF ArrayDims
<1>e. Has(f, "extcur") => f.arrays["extcur"].dims = <<"n_extcur">>
  BY DEF ArrayDims
<1>s. Has(f, "stages") => f.arrays["stages"].dims = <<"nstages_in">>
  BY DEF ArrayDims
<1>3. /\ f.arrays["rbc"].dims = <<"nrbc">> /\ f.arrays["zbs"].dims = <<"nzbs">>
      /\ f.arrays["folded"].dims = <<"n_boundary">>
      /\ \A x \in {"scalars", "types", "free", "makegrid"} :
           Has(f, x) => f.arrays[x].dims = <<>>
  BY DEF ArrayDims
<1>4. GotNamed(a, f, report, NA) /\ (a.ok <=> r.ok)
  BY <1>3, ScalarsNamed
<1> HIDE DEF a, NA
<1>5. GotNamed(b, f, report, NB) /\ (b.ok <=> a.ok)
  BY <1>2, <1>p, <1>4, FetchedIf
<1> HIDE DEF b, NB
<1>6. GotNamed(c, f, report, NC) /\ (c.ok <=> b.ok)
  BY <1>2, <1>x, <1>5, FetchedIf
<1> HIDE DEF c, NC
<1>7. GotNamed(d, f, report, ND) /\ (d.ok <=> c.ok)
  BY <1>2, <1>e, <1>6, FetchedIf
<1> HIDE DEF d, ND
<1>8. GotNamed(e, f, report, NE) /\ (e.ok <=> d.ok)
  BY <1>2, <1>s, <1>7, FetchedIf
<1> HIDE DEF e, NE
<1>9. GotNamed(g, f, report, NG) /\ (g.ok <=> e.ok)
  BY <1>3, <1>8, Fetched
<1> HIDE DEF g, NG
<1>10. GotNamed(h, f, report, NH) /\ (h.ok <=> g.ok)
  BY <1>3, <1>9, Fetched
<1> HIDE DEF h, NH
<1>11. GotNamed(i, f, report, NI) /\ (i.ok <=> h.ok)
  BY <1>3, <1>10, Fetched
<1> HIDE DEF i
<1>12. NI = N \cup RecordArrayNames(f, p)
  BY DEF NI, NH, NG, NE, ND, NC, NB, NA, RecordArrayNames
<1> QED
  BY <1>1, <1>4, <1>5, <1>6, <1>7, <1>8, <1>9, <1>10, <1>11, <1>12

Flat(f) ==
  /\ \A x \in {"scalars", "types", "free", "makegrid"} :
       Has(f, x) => f.arrays[x].dims = <<>>
  /\ \A x \in {"stages", "profiles", "axis", "extcur", "rbc", "zbs", "folded"} :
       Has(f, x) => f.arrays[x].dims = <<f.arrays[x].dims[1]>>

LEMMA Hdf5RecordNamed ==
  ASSUME NEW f, NEW p, p.embedded \in BOOLEAN, NEW report, NEW N, "free" \notin N,
         NEW r, GotNamed(r, f, report, N), Has(f, "scalars"),
         Has(f, "makegrid") <=> Has(f, "free"),
         Has(f, "free") => f.arrays["free"].value = p.embedded,
         Flat(f),
         Has(f, "profiles"), Has(f, "axis"), Has(f, "stages"), Has(f, "rbc"), Has(f, "folded")
  PROVE  LET t == Hdf5Record(r, f)
         IN  /\ GotNamed(t, f, report, N \cup RecordArrayNames(f, p))
             /\ t.ok <=> r.ok /\ Has(f, "zbs")
<1> DEFINE X(x) == <<Extent(f, x)>>
           a == ScalarsOf(r, f)
           b == Fetch(a, f, "profiles", X("profiles"))
           c == Fetch(b, f, "axis", X("axis"))
           d == FetchIf(Has(f, "extcur"), c, f, "extcur", X("extcur"))
           e == Fetch(d, f, "stages", X("stages"))
           g == Fetch(e, f, "rbc", X("rbc"))
           h == Fetch(g, f, "zbs", X("zbs"))
           i == Fetch(h, f, "folded", X("folded"))
           NA == N \cup ScalarArrayNames(f, p)
           NB == NA \cup {"profiles"}
           NC == NB \cup {"axis"}
           ND == NC \cup Only(Has(f, "extcur"), {"extcur"})
           NE == ND \cup {"stages"}
           NG == NE \cup {"rbc"}
           NH == NG \cup {"zbs"}
           NI == NH \cup {"folded"}
<1>1. Hdf5Record(r, f) = i
  BY DEF Hdf5Record, Own, FetchIf
<1>2. \A x : Has(f, x) \in BOOLEAN
  BY DEF Has
<1>3. \A x \in {"stages", "profiles", "axis", "extcur", "rbc", "zbs", "folded"} :
        Has(f, x) => f.arrays[x].dims = X(x)
  BY DEF Extent, Flat
<1> HIDE DEF X
<1>4. GotNamed(a, f, report, NA) /\ (a.ok <=> r.ok)
  <2>1. \A x \in {"scalars", "types", "free", "makegrid"} :
          Has(f, x) => f.arrays[x].dims = <<>>
    BY DEF Flat
  <2> QED
    BY <2>1, ScalarsNamed
<1> HIDE DEF a, NA
<1>5. GotNamed(b, f, report, NB) /\ (b.ok <=> a.ok)
  BY <1>3, <1>4, Fetched
<1> HIDE DEF b, NB
<1>6. GotNamed(c, f, report, NC) /\ (c.ok <=> b.ok)
  BY <1>3, <1>5, Fetched
<1> HIDE DEF c, NC
<1>7. GotNamed(d, f, report, ND) /\ (d.ok <=> c.ok)
  BY <1>2, <1>3, <1>6, FetchedIf
<1> HIDE DEF d, ND
<1>8. GotNamed(e, f, report, NE) /\ (e.ok <=> d.ok)
  BY <1>3, <1>7, Fetched
<1> HIDE DEF e, NE
<1>9. GotNamed(g, f, report, NG) /\ (g.ok <=> e.ok)
  BY <1>3, <1>8, Fetched
<1> HIDE DEF g, NG
<1>10. GotNamed(h, f, report, NH) /\ (h.ok <=> g.ok /\ Has(f, "zbs"))
  BY <1>3, <1>9, Fetched
<1> HIDE DEF h, NH
<1>11. GotNamed(i, f, report, NI) /\ (i.ok <=> h.ok)
  BY <1>3, <1>10, Fetched
<1> HIDE DEF i
<1>12. NI = N \cup RecordArrayNames(f, p)
  BY DEF NI, NH, NG, NE, ND, NC, NB, NA, RecordArrayNames, Only
<1> QED
  BY <1>1, <1>4, <1>5, <1>6, <1>7, <1>8, <1>9, <1>10, <1>11, <1>12

AsymmetricArrayNames(f) ==
  {"lasym", "complement_folded"} \cup Only(Has(f, "rbs"), {"rbs"})
    \cup Only(Has(f, "zbc"), {"zbc"})

(* The asymmetric part of it, in either format.                              *)
LEMMA NetcdfAsymmetricNamed ==
  ASSUME NEW f, NEW report, NEW N, NEW r, GotNamed(r, f, report, N)
  PROVE  LET t == NetcdfAsymmetric(r, f)
         IN  GotNamed(t, f, report, N \cup AsymmetricArrayNames(f)) /\ (t.ok => Has(f, "scalars"))
<1> DEFINE d == Demand(r, Has(f, "scalars"))
           l == Fetch(d, f, "lasym", <<>>)
           m == Fetch(l, f, "complement_folded", <<"n_boundary">>)
           g == FetchIf(Has(f, "rbs"), m, f, "rbs", <<"n_rbs">>)
           h == FetchIf(Has(f, "zbc"), g, f, "zbc", <<"n_zbc">>)
           NL == N \cup {"lasym"}
           NM == NL \cup {"complement_folded"}
           NG == NM \cup Only(Has(f, "rbs"), {"rbs"})
           NH == NG \cup Only(Has(f, "zbc"), {"zbc"})
<1>1. NetcdfAsymmetric(r, f) = h
  BY DEF NetcdfAsymmetric, Listed
<1>2. \A x : Has(f, x) \in BOOLEAN
  BY DEF Has
<1>3. GotNamed(d, f, report, N) /\ (d.ok <=> r.ok /\ Has(f, "scalars"))
  BY <1>2, DemandedNamed
<1> HIDE DEF d
<1>4. GotNamed(l, f, report, NL) /\ (l.ok => d.ok)
  BY <1>3, Fetched
<1> HIDE DEF l, NL
<1>5. GotNamed(m, f, report, NM) /\ (m.ok => l.ok)
  BY <1>4, Fetched
<1> HIDE DEF m, NM
<1>6. GotNamed(g, f, report, NG) /\ (g.ok => m.ok)
  BY <1>2, <1>5, FetchedIf
<1> HIDE DEF g, NG
<1>7. GotNamed(h, f, report, NH) /\ (h.ok => g.ok)
  BY <1>2, <1>6, FetchedIf
<1> HIDE DEF h
<1>8. NH = N \cup AsymmetricArrayNames(f)
  BY DEF NH, NG, NM, NL, AsymmetricArrayNames
<1> QED
  BY <1>1, <1>3, <1>4, <1>5, <1>6, <1>7, <1>8

LEMMA Hdf5AsymmetricNamed ==
  ASSUME NEW f, NEW report, NEW N, NEW r, GotNamed(r, f, report, N)
  PROVE  LET t == Hdf5Asymmetric(r, f)
         IN  /\ GotNamed(t, f, report, N \cup AsymmetricArrayNames(f))
             /\ t.ok => Has(f, "scalars")
<1> DEFINE X(x) == <<Extent(f, x)>>
           d == Demand(r, Has(f, "scalars"))
           l == Fetch(d, f, "lasym", <<>>)
           m == Fetch(l, f, "complement_folded", X("complement_folded"))
           g == Fetch(m, f, "rbs", X("rbs"))
           h == Fetch(g, f, "zbc", X("zbc"))
           NL == N \cup {"lasym"}
           NM == NL \cup {"complement_folded"}
           NG == NM \cup {"rbs"}
           NH == NG \cup {"zbc"}
<1>1. Hdf5Asymmetric(r, f) = h
  BY DEF Hdf5Asymmetric, Own
<1>2. \A x : Has(f, x) \in BOOLEAN
  BY DEF Has
<1>3. GotNamed(d, f, report, N) /\ (d.ok <=> r.ok /\ Has(f, "scalars"))
  BY <1>2, DemandedNamed
<1> HIDE DEF d, X
<1>4. GotNamed(l, f, report, NL) /\ (l.ok => d.ok)
  BY <1>3, Fetched
<1> HIDE DEF l, NL
<1>5. GotNamed(m, f, report, NM) /\ (m.ok => l.ok)
  BY <1>4, Fetched
<1> HIDE DEF m, NM
<1>6. GotNamed(g, f, report, NG) /\ (g.ok => m.ok /\ Has(f, "rbs"))
  BY <1>5, Fetched
<1> HIDE DEF g, NG
<1>7. GotNamed(h, f, report, NH) /\ (h.ok => g.ok /\ Has(f, "zbc"))
  BY <1>6, Fetched
<1> HIDE DEF h
<1>8. Has(f, "rbs") /\ Has(f, "zbc") => NH = N \cup AsymmetricArrayNames(f)
  BY DEF NH, NG, NM, NL, AsymmetricArrayNames, Only
<1>9. GotNamed(h, f, report, N \cup AsymmetricArrayNames(f))
  <2>1. CASE h.ok
    BY <1>6, <1>7, <1>8, <2>1
  <2>2. CASE ~h.ok
    BY <1>7, <2>2 DEF GotNamed
  <2> QED
    BY <2>1, <2>2
<1> QED
  BY <1>1, <1>3, <1>4, <1>5, <1>6, <1>7, <1>9

(* The two halves of an asymmetric state.                                    *)
Complement(s) == IF s.lasym THEN Family(s, 6) ELSE <<>>

WholeState(s) == [c \in 1 .. Components(s.lasym) |-> <<s.state, c>>]

(* The two halves of an asymmetric state make the whole.                     *)
LEMMA HalvesJoin ==
  ASSUME NEW s, s.lasym \in BOOLEAN
  PROVE  Family(s, 0) \o Complement(s) = WholeState(s)
<1> DEFINE a == Family(s, 0)
           b == Family(s, 6)
<1>1. /\ a = [c \in 1 .. 6 |-> <<s.state, c>>] /\ DOMAIN a = 1 .. 6
      /\ b = [c \in 1 .. 6 |-> <<s.state, 6 + c>>] /\ DOMAIN b = 1 .. 6
  <2>1. \A c \in 1 .. 6 : 0 + c = c
    OBVIOUS
  <2> QED
    BY <2>1 DEF Family
<1> HIDE DEF a, b
<1>2. IsSequence(a) /\ Len(a) = 6 /\ IsSequence(b) /\ Len(b) = 6
  <2>1. a = [c \in 1 .. 6 |-> a[c]] /\ b = [c \in 1 .. 6 |-> b[c]] /\ 6 \in Nat
    BY <1>1
  <2> QED
    BY <1>1, <2>1, Mapped
<1>3. ASSUME NEW t, IsSequence(t)
      PROVE  t = [i \in 1 .. Len(t) |-> t[i]]
  BY <1>3 DEF IsSequence
<1>4. CASE s.lasym
  <2> DEFINE w == a \o b
  <2>1. /\ IsSequence(w) /\ Len(w) = 12
        /\ \A i \in 1 .. 6 : w[i] = a[i]
        /\ \A i \in 1 .. 6 : w[6 + i] = b[i]
    <3>1. 6 + 6 = 12
      OBVIOUS
    <3>2. /\ IsSequence(a \o b) /\ Len(a \o b) = Len(a) + Len(b)
          /\ \A i \in 1 .. Len(a) : (a \o b)[i] = a[i]
          /\ \A i \in 1 .. Len(b) : (a \o b)[Len(a) + i] = b[i]
      <4>1. IsSequence(a) /\ IsSequence(b)
        BY <1>2
      <4> HIDE DEF w
      <4> QED
        BY ONLY <4>1, Joined
    <3> QED
      BY <1>2, <3>1, <3>2
  <2> HIDE DEF w
  <2>2. w = [i \in 1 .. 12 |-> w[i]]
    BY <1>3, <2>1
  <2>3. ASSUME NEW i \in 1 .. 12
        PROVE  w[i] = <<s.state, i>>
    <3>1. CASE i \in 1 .. 6
      BY <1>1, <2>1, <3>1
    <3>2. CASE i \in 7 .. 12
      <4>1. i - 6 \in 1 .. 6 /\ 6 + (i - 6) = i
        BY <3>2
      <4>2. w[6 + (i - 6)] = b[i - 6] /\ b[i - 6] = <<s.state, 6 + (i - 6)>>
        BY <1>1, <2>1, <4>1
      <4> QED
        BY <4>1, <4>2
    <3> QED
      BY <3>1, <3>2
  <2>4. w = [i \in 1 .. 12 |-> <<s.state, i>>]
    BY <2>2, <2>3
  <2> QED
    BY <1>4, <2>4 DEF w, a, b, Components, Complement, WholeState
<1>5. CASE ~s.lasym
  <2> DEFINE w == a \o <<>>
  <2>1. /\ IsSequence(w) /\ Len(w) = 6
        /\ \A i \in 1 .. 6 : w[i] = a[i]
    <3>1. 6 + 0 = 6
      OBVIOUS
    <3>2. IsSequence(<<>>) /\ Len(<<>>) = 0
      BY ShortSequences
    <3> QED
      BY <1>2, <3>1, <3>2, Joined
  <2> HIDE DEF w
  <2>2. w = [i \in 1 .. 6 |-> w[i]]
    BY <1>3, <2>1
  <2>3. w = [i \in 1 .. 6 |-> <<s.state, i>>]
    BY <1>1, <2>1, <2>2
  <2> QED
    BY <1>5, <2>3 DEF w, a, Components, Complement, WholeState
<1> QED
  BY <1>4, <1>5

(* What the names say of the values: the state, the report and the record.   *)
LEMMA NamesAgree ==
  ASSUME NEW s, NEW p, NEW report, Shaped(s, p, report),
         NEW layout, layout \in NamedLayouts, NEW f, Sheet(f, s, p, report, layout),
         NEW N, NEW r, GotNamed(r, f, report, N), r.ok, NEW asked \in BOOLEAN,
         StateArrayNames(s) \subseteq N, "complement" \in N => s.lasym,
         asked => "report" \in N,
         asked /\ layout.record = "typed" =>
           /\ RecordArrayNames(f, p) \subseteq N /\ (s.lasym => AsymmetricArrayNames(f) \subseteq N)
           /\ N \cap {"types", "makegrid"} \subseteq RecordArrayNames(f, p)
  PROVE  NamedAgrees(r, s, p, report, layout, asked)
<1> DEFINE typed == layout.record = "typed"
           Fields == IF s.fields = "complete" THEN {"half", "full"} ELSE {}
           Length(x) == IF x \in Vectors THEN p.lengths[x] ELSE p.harmonics[x]
           Lists == Vectors \cup (IF s.lasym THEN {"rbs", "zbc"} ELSE {})
<1>1. s.lasym \in BOOLEAN /\ s.fields = "complete" /\ p.embedded \in BOOLEAN
  BY DEF Shaped, StateOk
<1>2. /\ {"families", "half", "full"} \subseteq N
      /\ "complement" \in N <=> s.lasym
  BY <1>1 DEF StateArrayNames, Only
<1>3. /\ DOMAIN r.got = N
      /\ \A x \in N \ {"report"} : r.got[x] = f.arrays[x].value
      /\ "report" \in N => r.got["report"] = report
  BY DEF GotNamed
<1>4. /\ f.arrays["families"].value = Family(s, 0)
      /\ s.lasym => f.arrays["complement"].value = Family(s, 6)
      /\ f.arrays["half"].value = s.state /\ f.arrays["full"].value = s.state
  BY DEF Sheet
<1>5. r.got["families"] \o Got(r, "complement", <<>>)
        = [c \in 1 .. Components(s.lasym) |-> <<s.state, c>>]
  <2>1. r.got["families"] = Family(s, 0)
    BY <1>2, <1>3, <1>4
  <2>2. Got(r, "complement", <<>>) = Complement(s)
    <3>1. CASE s.lasym
      BY <1>2, <1>3, <1>4, <3>1 DEF Got, Complement
    <3>2. CASE ~s.lasym
      BY <1>2, <1>3, <3>2 DEF Got, Complement
    <3> QED
      BY <3>1, <3>2
  <2>3. Family(s, 0) \o Complement(s) = WholeState(s)
    BY <1>1, HalvesJoin
  <2> QED
    BY <2>1, <2>2, <2>3 DEF WholeState
<1>6. \A x \in {"half", "full"} :
        IF x \in Fields THEN r.got[x] = s.state ELSE x \notin DOMAIN r.got
  BY <1>1, <1>2, <1>3, <1>4
<1>7. ASSUME asked
      PROVE  r.got["report"] = report
  BY <1>3, <1>7
<1>8. ASSUME asked, typed
      PROVE  /\ "types" \in DOMAIN r.got <=> layout.types
             /\ "makegrid" \in DOMAIN r.got <=> layout.free /\ p.embedded
             /\ {"scalars", "stages", "rbc", "zbs", "folded"} \subseteq DOMAIN r.got
             /\ \A x \in Lists : Length(x) > 0 => x \in DOMAIN r.got
  <2>1. /\ RecordArrayNames(f, p) \subseteq N /\ (s.lasym => AsymmetricArrayNames(f) \subseteq N)
        /\ N \cap {"types", "makegrid"} \subseteq RecordArrayNames(f, p)
    BY <1>8
  <2>2. /\ Has(f, "types") <=> layout.types
        /\ Has(f, "free") <=> layout.free
        /\ Has(f, "stages")
        /\ \A v \in Vectors : p.lengths[v] > 0 => Has(f, v)
        /\ s.lasym => \A x \in {"rbs", "zbc"} : p.harmonics[x] > 0 => Has(f, x)
    BY <1>8 DEF Sheet
  <2>3. /\ "types" \in RecordArrayNames(f, p) <=> Has(f, "types")
        /\ "makegrid" \in RecordArrayNames(f, p) <=> Has(f, "free") /\ p.embedded
        /\ {"scalars", "rbc", "zbs", "folded"} \subseteq RecordArrayNames(f, p)
        /\ Has(f, "stages") => "stages" \in RecordArrayNames(f, p)
        /\ Has(f, "profiles") => "profiles" \in RecordArrayNames(f, p)
        /\ Has(f, "axis") => "axis" \in RecordArrayNames(f, p)
        /\ Has(f, "extcur") => "extcur" \in RecordArrayNames(f, p)
        /\ Has(f, "rbs") => "rbs" \in AsymmetricArrayNames(f)
        /\ Has(f, "zbc") => "zbc" \in AsymmetricArrayNames(f)
    BY DEF RecordArrayNames, ScalarArrayNames, AsymmetricArrayNames, Only
  <2>4. /\ "types" \in N <=> layout.types
        /\ "makegrid" \in N <=> layout.free /\ p.embedded
        /\ {"scalars", "stages", "rbc", "zbs", "folded"} \subseteq N
    BY <2>1, <2>2, <2>3
  <2>5. \A v \in Vectors : Length(v) > 0 => v \in N
    <3>1. /\ Has(f, "profiles") => "profiles" \in N
          /\ Has(f, "axis") => "axis" \in N
          /\ Has(f, "extcur") => "extcur" \in N
      BY <2>1, <2>3
    <3>2. Vectors = {"profiles", "axis", "extcur"}
      BY DEF Vectors
    <3> QED
      BY <2>2, <3>1, <3>2
  <2>6. s.lasym => \A x \in {"rbs", "zbc"} : Length(x) > 0 => x \in N
    <3>1. s.lasym => (Has(f, "rbs") => "rbs" \in N) /\ (Has(f, "zbc") => "zbc" \in N)
      BY <2>1, <2>3
    <3>2. \A x \in {"rbs", "zbc"} : Length(x) = p.harmonics[x]
      BY DEF Vectors
    <3> QED
      BY <2>2, <3>1, <3>2
  <2>7. \A x \in Lists : Length(x) > 0 => x \in N
    <3> HIDE DEF Length
    <3> QED
      BY <1>1, <2>5, <2>6
  <2> QED
    BY <1>3, <2>4, <2>7
<1> HIDE DEF Length, Lists, Fields
<1> QED
  BY <1>5, <1>6, <1>7, <1>8 DEF NamedAgrees, Fields, Length, Lists

(* A NetCDF file, of any release and whatever its dimensions, is read as it  *)
(* was written: the state in full, the restarts of each stage, and the       *)
(* record as far as the release carries it. A reader that does not ask for   *)
(* the report, or reads a symmetric result, accepts the file.                *)
THEOREM NetcdfIsRead ==
  ASSUME NEW s, NEW p, NEW report, Shaped(s, p, report),
         NEW layout, layout \in NamedLayouts,
         NEW f, f = NetcdfFile(s, p, report, layout), ~Refused(f), NEW asked \in BOOLEAN
  PROVE  LET r == ReadNetcdf(f, asked)
         IN  /\ r.ok => NamedAgrees(r, s, p, report, layout, asked)
             /\ ~asked \/ ~p.lasym => r.ok
<1> DEFINE Dim(d) == d \in DOMAIN f.dims
           ca == Dim("ns") /\ Dim("mnmax") /\ f.dims["ns"] >= 1 /\ f.dims["mnmax"] >= 1
           a == Demand(Start, ca)
           cb == a.ok /\ (Has(f, "half") => Dim("ns_half") /\ f.dims["ns_half"] = f.dims["ns"] - 1)
           b == Demand(a, cb)
           q == StateOf(b, f, "ns", "mnmax", "ns_half", "n_angles")
           w == NetcdfReport(q, f)
           v == IF Has(f, "scalars") THEN NetcdfRecord(w, f) ELSE w
           z == NetcdfAsymmetric(v, f)
           r == ReadNetcdf(f, asked)
           typed == layout.record = "typed"
           N1 == StateArrayNames(s) \cup ReportArrayNames(TRUE)
           N2 == N1 \cup RecordArrayNames(f, p)
           N3 == (IF typed THEN N2 ELSE N1) \cup AsymmetricArrayNames(f)
<1>1. /\ Sheet(f, s, p, report, layout) /\ Has(f, "restart_iteration") /\ Has(f, "zbs")
      /\ \A x \in DOMAIN ArrayDims : Has(f, x) => f.arrays[x].dims = ArrayDims[x]
      /\ {"ns", "mnmax", "nstages", "nrestarts", "ns_half"} \subseteq DOMAIN f.dims
      /\ f.dims["ns"] = s.ns /\ f.dims["mnmax"] = s.modes
      /\ f.dims["nrestarts"] = Restarts(report) /\ f.dims["ns_half"] = s.ns - 1
  BY NetcdfHolds
<1>2. /\ s.lasym \in BOOLEAN /\ s.ns \in Nat \ {0} /\ s.modes \in Nat \ {0}
      /\ p.lasym = s.lasym /\ p.embedded \in BOOLEAN /\ report \in Seq(Nat)
  BY DEF Shaped, StateOk
<1>3. /\ \A x \in {"families", "half", "full", "outcome", "provenance", "stage_history",
                   "rbc", "folded"} : Has(f, x)
      /\ Has(f, "complement") <=> s.lasym
      /\ Has(f, "scalars") <=> typed
      /\ Has(f, "makegrid") <=> Has(f, "free")
      /\ f.arrays["stage_history"].value = Offsets(report)
      /\ Has(f, "free") => f.arrays["free"].value = p.embedded
  BY <1>1 DEF Sheet
<1>4. r = IF ~asked THEN q ELSE IF Has(f, "complement") THEN z ELSE v
  BY DEF ReadNetcdf
<1>5. ca
  BY <1>1, <1>2
<1> HIDE DEF ca
<1>6. GotNamed(a, f, report, {}) /\ a.ok
  <2>1. GotNamed(Start, f, report, {}) /\ Start.ok /\ ca \in BOOLEAN
    BY <1>5, StartNamed, StartIsReader
  <2> QED
    BY <1>5, <2>1, DemandedNamed
<1> HIDE DEF a
<1>7. cb
  BY <1>1, <1>6
<1> HIDE DEF cb
<1>8. GotNamed(b, f, report, {}) /\ b.ok
  <2>1. cb \in BOOLEAN
    BY <1>7
  <2> QED
    BY <1>6, <1>7, <2>1, DemandedNamed
<1> HIDE DEF b, r
<1>9. GotNamed(q, f, report, StateArrayNames(s)) /\ q.ok
  <2>1. /\ f.arrays["families"].dims = <<"ns", "mnmax">>
        /\ s.lasym => f.arrays["complement"].dims = <<"ns", "mnmax">>
        /\ f.arrays["half"].dims = <<"ns_half", "n_angles">>
        /\ f.arrays["full"].dims = <<"ns", "n_angles">>
    BY <1>1, <1>3 DEF ArrayDims
  <2>2. Has(f, "families") /\ Has(f, "half") /\ Has(f, "full")
    BY <1>3
  <2> QED
    BY <1>2, <1>3, <1>8, <2>1, <2>2, StateNamed
<1> HIDE DEF q
<1>10. GotNamed(w, f, report, N1) /\ w.ok
  <2>1. {"nstages", "nrestarts"} \subseteq DOMAIN f.dims
    BY <1>1
  <2>2. Has(f, "outcome") /\ Has(f, "provenance") /\ Has(f, "stage_history")
    BY <1>3
  <2> QED
    BY <1>1, <1>2, <1>3, <1>9, <2>1, <2>2, NetcdfReportNamed
<1>11. "free" \notin N1
  BY DEF StateArrayNames, ReportArrayNames, Only
<1> HIDE DEF w, N1
<1>12. GotNamed(v, f, report, IF typed THEN N2 ELSE N1) /\ v.ok
  <2>1. CASE typed
    <3>1. Has(f, "rbc") /\ Has(f, "folded") /\ Has(f, "scalars")
      BY <1>3, <2>1
    <3>2. /\ Has(f, "rbc") /\ Has(f, "zbs") /\ Has(f, "folded") /\ p.embedded \in BOOLEAN
          /\ \A x \in DOMAIN ArrayDims : Has(f, x) => f.arrays[x].dims = ArrayDims[x]
          /\ Has(f, "makegrid") <=> Has(f, "free")
          /\ Has(f, "free") => f.arrays["free"].value = p.embedded
          /\ GotNamed(w, f, report, N1)
      BY <1>1, <1>2, <1>3, <1>10, <3>1
    <3>3. /\ GotNamed(NetcdfRecord(w, f), f, report, N1 \cup RecordArrayNames(f, p))
          /\ NetcdfRecord(w, f).ok <=> w.ok
      BY ONLY <1>11, <3>1, <3>2, NetcdfRecordNamed
    <3>4. GotNamed(NetcdfRecord(w, f), f, report, N2) /\ NetcdfRecord(w, f).ok
      BY <1>10, <3>3
    <3> QED
      BY <2>1, <3>1, <3>4
  <2>2. CASE ~typed
    BY <1>3, <1>10, <2>2
  <2> QED
    BY <2>1, <2>2
<1> HIDE DEF v, N2
<1>13. GotNamed(z, f, report, N3) /\ (z.ok => typed)
  <2>1. /\ GotNamed(z, f, report, (IF typed THEN N2 ELSE N1) \cup AsymmetricArrayNames(f))
        /\ z.ok => Has(f, "scalars")
    BY <1>12, NetcdfAsymmetricNamed
  <2> QED
    BY <1>3, <2>1
<1> HIDE DEF z, typed
<1>14. /\ {"complement", "types", "makegrid"} \cap N3 \subseteq StateArrayNames(s) \cup RecordArrayNames(f, p)
       /\ "complement" \in N3 => s.lasym
       /\ N1 \subseteq N3 /\ StateArrayNames(s) \subseteq N1 /\ "report" \in N1
       /\ typed => RecordArrayNames(f, p) \subseteq N3
       /\ AsymmetricArrayNames(f) \subseteq N3
       /\ N1 \cap {"types", "makegrid"} = {} /\ ("complement" \in N1 => s.lasym)
       /\ RecordArrayNames(f, p) \subseteq N2 /\ N1 \subseteq N2
       /\ N2 \cap {"types", "makegrid"} \subseteq RecordArrayNames(f, p)
       /\ "complement" \in N2 => s.lasym
       /\ N3 \cap {"types", "makegrid"} \subseteq RecordArrayNames(f, p)
  BY DEF N3, N2, N1, StateArrayNames, ReportArrayNames, RecordArrayNames,
         ScalarArrayNames, AsymmetricArrayNames, Only
<1> HIDE DEF N3
<1>15. CASE ~asked
  <2>1. r = q
    BY <1>4, <1>15
  <2>2. "complement" \in StateArrayNames(s) => s.lasym
    BY DEF StateArrayNames, Only
  <2>3. q.ok => NamedAgrees(q, s, p, report, layout, asked)
    BY <1>1, <1>9, <1>15, <2>2, NamesAgree
  <2> QED
    BY <1>9, <2>1, <2>3 DEF r
<1>16. CASE asked /\ ~s.lasym
  <2>1. r = v
    BY <1>3, <1>4, <1>16
  <2>2. v.ok => NamedAgrees(v, s, p, report, layout, asked)
    <3>1. CASE typed
      <4>1. GotNamed(v, f, report, N2) /\ v.ok /\ StateArrayNames(s) \subseteq N2 /\ "report" \in N2
        BY <1>12, <1>14, <3>1
      <4> QED
        BY <1>1, <1>14, <1>16, <4>1, NamesAgree
    <3>2. CASE ~typed
      <4>1. GotNamed(v, f, report, N1) /\ v.ok
        BY <1>12, <3>2
      <4>2. layout.record # "typed"
        BY <3>2 DEF typed
      <4> QED
        BY <1>1, <1>14, <1>16, <4>1, <4>2, NamesAgree
    <3> QED
      BY <3>1, <3>2
  <2> QED
    BY <1>12, <2>1, <2>2 DEF r
<1>17. CASE asked /\ s.lasym
  <2>1. r = z
    BY <1>3, <1>4, <1>17
  <2>2. z.ok => NamedAgrees(z, s, p, report, layout, asked)
    <3> SUFFICES ASSUME z.ok
                 PROVE  NamedAgrees(z, s, p, report, layout, asked)
      OBVIOUS
    <3>1. typed /\ GotNamed(z, f, report, N3) /\ StateArrayNames(s) \subseteq N3 /\ "report" \in N3
      BY <1>13, <1>14
    <3> QED
      BY <1>1, <1>14, <1>17, <3>1, NamesAgree
  <2> QED
    BY <1>2, <1>17, <2>1, <2>2 DEF r
<1> QED
  BY <1>2, <1>15, <1>16, <1>17

(* The same for an HDF5 file, where the restarts and the main harmonics of   *)
(* the boundary are left out when there are none, which its reader has to    *)
(* tell from a missing array, and any other empty array has length zero.     *)
THEOREM Hdf5IsRead ==
  ASSUME NEW s, NEW p, NEW report, Shaped(s, p, report),
         NEW layout, layout \in NamedLayouts,
         NEW f, f = Hdf5File(s, p, report, layout), ~Refused(f), NEW asked \in BOOLEAN
  PROVE  LET r == ReadHdf5(f, asked)
         IN  /\ r.ok => NamedAgrees(r, s, p, report, layout, asked)
             /\ ~asked \/ ~p.lasym => r.ok
<1> DEFINE d(x) == f.arrays[x].dims
           q == Hdf5State(f)
           w == Hdf5Report(q, f)
           v == IF Has(f, "scalars") THEN Hdf5Record(w, f) ELSE w
           z == Hdf5Asymmetric(v, f)
           r == ReadHdf5(f, asked)
           typed == layout.record = "typed"
           N1 == StateArrayNames(s) \cup ReportArrayNames(Restarts(report) > 0)
           N2 == N1 \cup RecordArrayNames(f, p)
           N3 == (IF typed THEN N2 ELSE N1) \cup AsymmetricArrayNames(f)
<1>1. /\ Sheet(f, s, p, report, layout)
      /\ layout.record = "typed" => Has(f, "profiles") /\ Has(f, "axis")
      /\ d("families") = <<s.ns, s.modes>>
      /\ s.lasym => d("complement") = <<s.ns, s.modes>>
      /\ d("half") = <<s.ns - 1, 1>> /\ d("full") = <<s.ns, 1>>
      /\ \A x \in {"outcome", "provenance", "scalars", "types", "free", "makegrid"} :
           Has(f, x) => d(x) = <<>>
      /\ \A x \in {"stage_history", "stages", "profiles", "axis", "extcur", "rbc", "zbs",
                   "folded"} : Has(f, x) => d(x) = <<d(x)[1]>>
      /\ IF Has(f, "restart_iteration")
         THEN d("restart_iteration") = <<Restarts(report)>>
         ELSE Restarts(report) = 0
  BY Hdf5Holds
<1>2. /\ s.lasym \in BOOLEAN /\ s.ns \in Nat \ {0} /\ s.modes \in Nat \ {0}
      /\ p.lasym = s.lasym /\ p.embedded \in BOOLEAN /\ report \in Seq(Nat)
  BY DEF Shaped, StateOk
<1>3. /\ \A x \in {"families", "half", "full", "outcome", "provenance", "stage_history",
                   "rbc", "folded"} : Has(f, x)
      /\ Has(f, "complement") <=> s.lasym
      /\ Has(f, "scalars") <=> typed
      /\ Has(f, "makegrid") <=> Has(f, "free")
      /\ typed => Has(f, "stages")
      /\ ~s.lasym => Has(f, "zbs")
      /\ f.arrays["stage_history"].value = Offsets(report)
      /\ Has(f, "free") => f.arrays["free"].value = p.embedded
  BY <1>1 DEF Sheet
<1>4. r = IF ~asked THEN q ELSE IF Has(f, "complement") THEN z ELSE v
  BY DEF ReadHdf5
<1> HIDE DEF r
<1>5. GotNamed(q, f, report, StateArrayNames(s)) /\ q.ok
  <2> DEFINE ns == Extent(f, "families")
             modes == IF Has(f, "families") THEN d("families")[2] ELSE -1
             angles == IF Has(f, "half") THEN d("half")[2] ELSE -1
             c == ns >= 1 /\ modes >= 1
             a == Demand(Start, c)
  <2>1. Has(f, "families") /\ Has(f, "half") /\ Has(f, "full")
    BY <1>3
  <2>2. ns = s.ns /\ modes = s.modes /\ angles = 1
    <3>1. \A x, y : <<x, y>>[1] = x /\ <<x, y>>[2] = y
      OBVIOUS
    <3> QED
      BY <1>1, <2>1, <3>1 DEF Extent
  <2>3. q = StateOf(a, f, ns, modes, ns - 1, angles)
    BY DEF Hdf5State
  <2> HIDE DEF q, ns, modes, angles
  <2>4. c
    BY <1>2, <2>2
  <2> HIDE DEF c
  <2>5. GotNamed(a, f, report, {}) /\ a.ok
    <3>1. GotNamed(Start, f, report, {}) /\ Start.ok /\ c \in BOOLEAN
      BY <2>4, StartNamed, StartIsReader
    <3> QED
      BY <2>4, <3>1, DemandedNamed
  <2> HIDE DEF a
  <2>6. q = StateOf(a, f, s.ns, s.modes, s.ns - 1, 1)
    BY <2>2, <2>3
  <2>7. LET t == StateOf(a, f, s.ns, s.modes, s.ns - 1, 1)
        IN  GotNamed(t, f, report, StateArrayNames(s)) /\ (t.ok <=> a.ok)
    BY <1>1, <1>2, <1>3, <2>1, <2>5, StateNamed
  <2> QED
    BY <2>5, <2>6, <2>7
<1> HIDE DEF q
<1>6. GotNamed(w, f, report, N1) /\ w.ok
  <2>1. /\ Has(f, "outcome") /\ Has(f, "provenance") /\ Has(f, "stage_history")
        /\ d("outcome") = <<>> /\ d("provenance") = <<>>
        /\ d("stage_history") = <<d("stage_history")[1]>>
    BY <1>1, <1>3
  <2> QED
    BY <1>1, <1>2, <1>3, <1>5, <2>1, Hdf5ReportNamed
<1>11. "free" \notin N1
  BY DEF StateArrayNames, ReportArrayNames, Only
<1> HIDE DEF w, N1
<1>12. /\ GotNamed(v, f, report, IF typed THEN N2 ELSE N1)
       /\ ~s.lasym => v.ok
  <2>1. CASE typed
    <3>1. /\ Has(f, "rbc") /\ Has(f, "folded") /\ Has(f, "scalars") /\ Has(f, "profiles")
          /\ Has(f, "axis") /\ Has(f, "stages")
      BY <1>1, <1>3, <2>1
    <3>2. /\ p.embedded \in BOOLEAN
          /\ Flat(f)
          /\ Has(f, "makegrid") <=> Has(f, "free")
          /\ Has(f, "free") => f.arrays["free"].value = p.embedded
          /\ GotNamed(w, f, report, N1)
      BY <1>1, <1>2, <1>3, <1>6 DEF Flat
    <3>3. /\ GotNamed(Hdf5Record(w, f), f, report, N1 \cup RecordArrayNames(f, p))
          /\ Hdf5Record(w, f).ok <=> w.ok /\ Has(f, "zbs")
      BY ONLY <1>11, <3>1, <3>2, Hdf5RecordNamed
    <3>4. GotNamed(Hdf5Record(w, f), f, report, N2) /\ (~s.lasym => Hdf5Record(w, f).ok)
      BY <1>3, <1>6, <3>3
    <3> QED
      BY <2>1, <3>1, <3>4
  <2>2. CASE ~typed
    BY <1>3, <1>6, <2>2
  <2> QED
    BY <2>1, <2>2
<1> HIDE DEF v, N2
<1>13. GotNamed(z, f, report, N3) /\ (z.ok => typed)
  <2>1. /\ GotNamed(z, f, report, (IF typed THEN N2 ELSE N1) \cup AsymmetricArrayNames(f))
        /\ z.ok => Has(f, "scalars")
    BY <1>12, Hdf5AsymmetricNamed
  <2> QED
    BY <1>3, <2>1
<1> HIDE DEF z, typed
<1>14. /\ {"complement", "types", "makegrid"} \cap N3 \subseteq StateArrayNames(s) \cup RecordArrayNames(f, p)
       /\ "complement" \in N3 => s.lasym
       /\ N1 \subseteq N3 /\ StateArrayNames(s) \subseteq N1 /\ "report" \in N1
       /\ typed => RecordArrayNames(f, p) \subseteq N3
       /\ AsymmetricArrayNames(f) \subseteq N3
       /\ N1 \cap {"types", "makegrid"} = {} /\ ("complement" \in N1 => s.lasym)
       /\ RecordArrayNames(f, p) \subseteq N2 /\ N1 \subseteq N2
       /\ N2 \cap {"types", "makegrid"} \subseteq RecordArrayNames(f, p)
       /\ "complement" \in N2 => s.lasym
       /\ N3 \cap {"types", "makegrid"} \subseteq RecordArrayNames(f, p)
  BY DEF N3, N2, N1, StateArrayNames, ReportArrayNames, RecordArrayNames,
         ScalarArrayNames, AsymmetricArrayNames, Only
<1> HIDE DEF N3
<1>15. CASE ~asked
  <2>1. r = q
    BY <1>4, <1>15
  <2>2. "complement" \in StateArrayNames(s) => s.lasym
    BY DEF StateArrayNames, Only
  <2>3. q.ok => NamedAgrees(q, s, p, report, layout, asked)
    BY <1>1, <1>5, <1>15, <2>2, NamesAgree
  <2> QED
    BY <1>5, <2>1, <2>3 DEF r
<1>16. CASE asked /\ ~s.lasym
  <2>1. r = v
    BY <1>3, <1>4, <1>16
  <2>2. v.ok => NamedAgrees(v, s, p, report, layout, asked)
    <3>1. CASE typed
      <4>1. GotNamed(v, f, report, N2) /\ v.ok /\ StateArrayNames(s) \subseteq N2 /\ "report" \in N2
        BY <1>12, <1>14, <1>16, <3>1
      <4> QED
        BY <1>1, <1>14, <1>16, <4>1, NamesAgree
    <3>2. CASE ~typed
      <4>1. GotNamed(v, f, report, N1) /\ v.ok
        BY <1>12, <1>16, <3>2
      <4>2. layout.record # "typed"
        BY <3>2 DEF typed
      <4> QED
        BY <1>1, <1>14, <1>16, <4>1, <4>2, NamesAgree
    <3> QED
      BY <3>1, <3>2
  <2> QED
    BY <1>12, <1>16, <2>1, <2>2 DEF r
<1>17. CASE asked /\ s.lasym
  <2>1. r = z
    BY <1>3, <1>4, <1>17
  <2>2. z.ok => NamedAgrees(z, s, p, report, layout, asked)
    <3> SUFFICES ASSUME z.ok
                 PROVE  NamedAgrees(z, s, p, report, layout, asked)
      OBVIOUS
    <3>1. typed /\ GotNamed(z, f, report, N3) /\ StateArrayNames(s) \subseteq N3 /\ "report" \in N3
      BY <1>13, <1>14
    <3>2. /\ RecordArrayNames(f, p) \subseteq N3 /\ AsymmetricArrayNames(f) \subseteq N3
          /\ N3 \cap {"types", "makegrid"} \subseteq RecordArrayNames(f, p)
          /\ "complement" \in N3 => s.lasym
      BY <1>14, <3>1
    <3> QED
      BY <1>1, <1>17, <3>1, <3>2, NamesAgree
  <2> QED
    BY <1>2, <1>17, <2>1, <2>2 DEF r
<1> QED
  BY <1>2, <1>15, <1>16, <1>17
=============================================================================
