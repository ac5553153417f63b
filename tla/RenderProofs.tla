---------------------------- MODULE RenderProofs ----------------------------
(***************************************************************************)
(* Proofs about the layouts of Render: how wide the fields of the lines of *)
(* a table are, when a value is printed whole, and what a json row tells   *)
(* of its values.                                                          *)
(***************************************************************************)
EXTENDS TextProofs
-----------------------------------------------------------------------------
(***************************************************************************)
(* Widths.                                                                 *)
(***************************************************************************)
LEMMA ClampRange ==
  ASSUME NEW w \in Int
  PROVE  /\ clamp(w) \in 0 .. Cap
         /\ w \in 0 .. Cap => clamp(w) = w
         /\ w > Cap => clamp(w) = Cap
BY CapAssumption DEF clamp

\* Runs of blanks and dashes are as long as asked for (main.go:98-110,
\* 753-756).
LEMMA BlanksLen ==
  ASSUME NEW n \in Nat
  PROVE  /\ Blanks(n) \in Seq({" ", "|", "-"}) /\ Len(Blanks(n)) = n
         /\ Dashes(n) \in Seq({" ", "|", "-"}) /\ Len(Dashes(n)) = n
BY DEF Blanks, Dashes

\* The length of a concatenation.
LEMMA ConcatLen ==
  ASSUME NEW S, NEW x \in Seq(S), NEW y \in Seq(S)
  PROVE  x \o y \in Seq(S) /\ Len(x \o y) = Len(x) + Len(y)
OBVIOUS

\* The borders between the columns, and their widths.
LEMMA BarsLen ==
  LET D == {" ", "|", "-"} IN
  /\ Bar \in Seq(D) /\ Len(Bar) = 1 /\ Blank \in Seq(D) /\ Len(Blank) = 1
  /\ Bar \o Blank \in Seq(D) /\ Len(Bar \o Blank) = 2
  /\ Width(Edge) = 1
<1> DEFINE D == {" ", "|", "-"}
<1>1. Bar \in Seq(D) /\ Len(Bar) = 1 /\ Blank \in Seq(D) /\ Len(Blank) = 1
  BY DEF Bar, Blank
<1> HIDE DEF D
<1>2. Bar \o Blank \in Seq(D) /\ Len(Bar \o Blank) = 2
  BY <1>1, ConcatLen
<1>3. Width(Edge) = 1
  <2>1. Edge.before = Bar /\ Edge.text = <<>> /\ Edge.after = <<>>
    BY DEF Edge, Field
  <2>2. Len(<<>>) = 0
    OBVIOUS
  <2> QED BY <1>1, <2>1, <2>2 DEF Width
<1> QED BY <1>1, <1>2, <1>3 DEF D

\* Max is a greatest member, of a set that has one.
LEMMA MaxOf ==
  ASSUME NEW V, NEW m \in V, \A y \in V : y \in Nat, \A y \in V : m >= y
  PROVE  Max(V) \in V /\ \A y \in V : Max(V) >= y
BY DEF Max

\* The greatest of some numbers is one of them and no smaller than any.
LEMMA Greatest ==
  ASSUME NEW a \in Nat, NEW f, NEW n \in Nat, \A i \in 1 .. n : f[i] \in Nat,
         NEW U, U = {a} \cup {f[i] : i \in 1 .. n}
  PROVE  Max(U) \in Nat /\ \A y \in U : Max(U) >= y
<1> DEFINE V(k) == {a} \cup {f[i] : i \in 1 .. k}
           N == {k \in Nat : k <= n => \E m \in V(k) : \A y \in V(k) : m >= y}
<1>0. \A k \in Nat : k <= n => \A y \in V(k) : y \in Nat
  OBVIOUS
<1>1. 0 \in N
  OBVIOUS
<1>2. ASSUME NEW k \in Nat, k \in N PROVE k + 1 \in N
  <2> SUFFICES ASSUME k + 1 <= n
               PROVE  \E m \in V(k + 1) : \A y \in V(k + 1) : m >= y
    BY DEF N
  <2>1. PICK m \in V(k) : \A y \in V(k) : m >= y
    BY <1>2
  <2>2. V(k + 1) = V(k) \cup {f[k + 1]} /\ f[k + 1] \in Nat
    <3>1. 1 .. k + 1 = (1 .. k) \cup {k + 1}
      OBVIOUS
    <3> QED BY <3>1
  <2>3. m \in Nat /\ \A y \in V(k) : y \in Nat
    BY <1>0, <2>1
  <2> HIDE DEF V
  <2>4. CASE m >= f[k + 1]
    BY <2>1, <2>2, <2>4
  <2>5. CASE ~(m >= f[k + 1])
    <3>1. \A y \in V(k + 1) : f[k + 1] >= y
      BY <2>1, <2>2, <2>3, <2>5
    <3> QED BY <2>2, <3>1
  <2> QED BY <2>4, <2>5
<1> HIDE DEF N
<1>3. \A k \in Nat : k \in N
  BY <1>1, <1>2, CountingUp
<1>U. U = V(n)
  OBVIOUS
<1> HIDE DEF V
<1>4. \E m \in V(n) : \A y \in V(n) : m >= y
  <2>1. n \in N /\ n <= n
    BY <1>3
  <2> QED BY <2>1 DEF N
<1>5. Max(V(n)) \in V(n) /\ \A y \in V(n) : Max(V(n)) >= y
  BY <1>0, <1>4, MaxOf
<1> QED BY <1>0, <1>5, <1>U
-----------------------------------------------------------------------------
(***************************************************************************)
(* Cutting, measuring and padding a text.                                  *)
(***************************************************************************)
\* A preview is no longer than asked for, and a text that fits is not cut
\* (main.go:1067-1078).
THEOREM PreviewFits ==
  ASSUME NEW S, NEW s \in Seq(S), NEW max \in Nat \ {0}
  PROVE  /\ Len(previewStr(s, max)) \in Nat /\ Len(previewStr(s, max)) <= max
         /\ Len(s) <= max => previewStr(s, max) = s
  <1>1. CASE Len(s) <= max
    BY <1>1 DEF previewStr
  <1>2. CASE Len(s) > max /\ max <= 3
    BY <1>2 DEF previewStr
  <1>3. CASE Len(s) > max /\ max > 3
    <2> DEFINE T == S \cup {"."}
               head == SubSeq(s, 1, max - 3)
    <2>1. s \in Seq(T)
      OBVIOUS
    <2>2. head \in Seq(T) /\ Len(head) = max - 3
      BY <1>3, <2>1
    <2>3. Dots \in Seq(T) /\ Len(Dots) = 3
      BY DEF Dots
    <2> HIDE DEF T, head
    <2>4. \A u, v \in Seq(T) : Len(u \o v) = Len(u) + Len(v)
      OBVIOUS
    <2>5. Len(head \o Dots) = max
      <3>1. Len(head \o Dots) = Len(head) + Len(Dots)
        BY <2>2, <2>3, <2>4, Zenon
      <3> QED BY <2>2, <2>3, <3>1
    <2> QED BY <1>3, <2>5 DEF previewStr, head
  <1> QED BY <1>1, <1>2, <1>3

\* A preview has no characters but those of the text and dots.
LEMMA PreviewType ==
  ASSUME NEW S, "." \in S, NEW s \in Seq(S), NEW max \in Nat \ {0}
  PROVE  previewStr(s, max) \in Seq(S)
<1>1. CASE Len(s) <= max \/ max <= 3
  BY <1>1 DEF previewStr
<1>2. CASE Len(s) > max /\ max > 3
  <2>1. SubSeq(s, 1, max - 3) \in Seq(S) /\ Dots \in Seq(S)
    BY <1>2 DEF Dots
  <2>2. SubSeq(s, 1, max - 3) \o Dots \in Seq(S)
    BY <2>1, ConcatLen
  <2> QED BY <1>2, <2>2 DEF previewStr
<1> QED BY <1>1, <1>2

\* No type is in two of the groups the renderers tell apart, so that the
\* order of their tests is of no consequence (main.go:1109-1144).
LEMMA GroupsApart ==
  /\ "Boolean" \notin Ints \cup Floats \cup Texts \cup Others
  /\ Ints \cap Floats = {} /\ Ints \cap Texts = {} /\ Ints \cap Others = {}
  /\ Floats \cap Texts = {} /\ Floats \cap Others = {} /\ Texts \cap Others = {}
BY DEF Ints, Floats, Texts, Others

\* What a layout adds to the characters of the values.
Letters(S) == S \cup {"N", "U", "L", "~", " ", "|", "-", ".", "?"}

\* Values whose texts are over S.
ValuesOver(S) == [null : BOOLEAN, unread : BOOLEAN, text : Seq(S), int : Seq(S)]

\* A cell is printed as one of two texts of its value, NULL, or the text for
\* a value that is too long or cannot be read (main.go:1088-1169).
LEMMA CellType ==
  ASSUME NEW S, NEW type \in ColTypes,
         NEW v \in ValuesOver(S)
  PROVE  formatCell(type, v) \in {v.int, v.text, NullText, TooLong, Unknown}
<1>1. type \in {"Boolean"} \cup Ints \cup Floats \cup Texts \cup Others
  BY DEF ColTypes
<1> QED BY <1>1, GroupsApart DEF formatCell

\* A text over some characters is a text over more.
LEMMA Wider ==
  ASSUME NEW S, NEW T, S \subseteq T, NEW s \in Seq(S)
  PROVE  s \in Seq(T)
OBVIOUS

\* A cell is a text over the characters of its value and of the fixed
\* texts.
LEMMA CellText ==
  ASSUME NEW S, NEW type \in ColTypes,
         NEW v \in ValuesOver(S)
  PROVE  formatCell(type, v) \in Seq(Letters(S)) /\ Len(formatCell(type, v)) \in Nat
<1>1. v.int \in Seq(Letters(S)) /\ v.text \in Seq(Letters(S))
  <2>1. S \subseteq Letters(S) /\ v.int \in Seq(S) /\ v.text \in Seq(S)
    BY DEF Letters, ValuesOver
  <2> QED BY <2>1, Wider
<1>2. /\ NullText \in Seq(Letters(S)) /\ TooLong \in Seq(Letters(S))
      /\ Unknown \in Seq(Letters(S))
  BY DEF NullText, TooLong, Unknown, Letters
<1> HIDE DEF Letters
<1>3. formatCell(type, v) \in Seq(Letters(S))
  BY <1>1, <1>2, CellType
<1> QED BY <1>3

\* A cell is measured at its length, clamped or not (main.go:34-96).
LEMMA MeasureOf ==
  ASSUME NEW S, NEW type \in ColTypes,
         NEW v \in ValuesOver(S)
  PROVE  measureCellWidth(type, v) \in
           {Len(formatCell(type, v)), clamp(Len(formatCell(type, v)))}
<1>1. CASE v.null
  BY <1>1 DEF measureCellWidth, formatCell
<1>2. CASE ~v.null /\ type \in Ints
  <2>1. type # "Boolean" /\ type \notin Floats \cup Texts \cup Others
    BY <1>2, GroupsApart
  <2> QED BY <1>2, <2>1 DEF measureCellWidth, formatCell
<1>3. CASE ~v.null /\ type \in Floats
  <2>1. type # "Boolean" /\ type \notin Ints \cup Texts \cup Others
    BY <1>3, GroupsApart
  <2> QED BY <1>3, <2>1 DEF measureCellWidth, formatCell
<1>4. CASE ~v.null /\ type = "Boolean"
  <2>1. type \notin Ints \cup Floats \cup Texts \cup Others
    BY <1>4, GroupsApart
  <2> QED BY <1>4, <2>1 DEF measureCellWidth, formatCell
<1>5. CASE ~v.null /\ type \in Texts \cup Others
  <2>1. type # "Boolean" /\ type \notin Ints \cup Floats
    BY <1>5, GroupsApart
  <2> QED BY <1>5, <2>1 DEF measureCellWidth
<1> QED BY <1>1, <1>2, <1>3, <1>4, <1>5 DEF ColTypes

\* A value that fits into the widest column is measured as long as it is
\* formatted, whatever its type: the two switches over the types agree.  One
\* that does not fit is measured as wide as that column at least
\* (main.go:34-96, 1088-1169).
THEOREM MeasureAgrees ==
  ASSUME NEW S, NEW type \in ColTypes,
         NEW v \in ValuesOver(S)
  PROVE  /\ measureCellWidth(type, v) \in Nat
         /\ Len(formatCell(type, v)) <= Cap =>
              measureCellWidth(type, v) = Len(formatCell(type, v))
         /\ Len(formatCell(type, v)) > Cap => measureCellWidth(type, v) >= Cap
<1> DEFINE n == Len(formatCell(type, v))
           m == measureCellWidth(type, v)
<1>1. n \in Nat /\ m \in {n, clamp(n)}
  BY CellText, MeasureOf
<1> HIDE DEF n, m
<1>2. clamp(n) \in 0 .. Cap /\ (n <= Cap => clamp(n) = n) /\ (n > Cap => clamp(n) = Cap)
  BY <1>1, ClampRange, CapAssumption
<1>3. m \in Nat /\ (n <= Cap => m = n) /\ (n > Cap => m >= Cap)
  BY <1>1, <1>2, CapAssumption
<1> QED BY <1>3 DEF n, m

\* What duckboxPadPrint prints of a text is as wide as the column, whatever
\* the text, the width and the side it is aligned to, and a text that fits
\* is printed whole (main.go:740-774).
THEOREM PaddedToWidth ==
  ASSUME NEW S, NEW s \in Seq(S), NEW w \in 1 .. Cap,
         NEW align \in {"l", "c", "r"}
  PROVE  LET f == duckboxPadPrint(s, w, align)
         IN  /\ Width(f) = w /\ (Len(s) <= w => f.text = s) /\ Len(f.text) \in Nat
             /\ \E a, b \in Nat : f.before = Blanks(a) /\ f.after = Blanks(b)
<1> DEFINE text == IF Len(s) > clamp(w) THEN previewStr(s, clamp(w)) ELSE s
           pad  == clamp(clamp(w) - Len(text))
           left == CASE align = "r" -> pad [] align = "c" -> pad \div 2
                     [] align = "l" -> 0
           f    == duckboxPadPrint(s, w, align)
<1>1. clamp(w) = w /\ w \in Nat \ {0}
  BY CapAssumption DEF clamp
<1>2. Len(text) \in Nat /\ Len(text) <= w /\ (Len(s) <= w => text = s)
  <2>1. Len(previewStr(s, w)) \in Nat /\ Len(previewStr(s, w)) <= w
    BY <1>1, PreviewFits
  <2> QED BY <1>1, <2>1
<1>3. f.before = Blanks(left) /\ f.text = text /\ f.after = Blanks(pad - left)
  BY DEF duckboxPadPrint, Field
<1> HIDE DEF text, f
<1>4. pad = w - Len(text) /\ pad \in Nat
  <2>1. w - Len(text) \in 0 .. Cap
    BY <1>2, CapAssumption
  <2> QED BY <1>1, <2>1, ClampRange
<1> HIDE DEF pad
<1>5. left \in 0 .. pad
  BY <1>4
<1> HIDE DEF left
<1>6. left \in Nat /\ pad - left \in Nat
  BY <1>4, <1>5
<1>7. Len(Blanks(left)) = left /\ Len(Blanks(pad - left)) = pad - left
  BY <1>6, BlanksLen
<1>8. Width(f) = left + Len(text) + (pad - left)
  BY <1>3, <1>7 DEF Width
<1>9. Width(f) = w
  BY <1>2, <1>4, <1>6, <1>8
<1> QED BY <1>2, <1>3, <1>6, <1>9 DEF f
-----------------------------------------------------------------------------
(***************************************************************************)
(* The columns of a table.                                                 *)
(***************************************************************************)
TableOver(S, t) ==
  /\ t.names \in Seq(Seq(S))
  /\ t.types \in Seq(ColTypes) /\ Len(t.types) = Len(t.names)
  /\ t.rows \in Seq(Seq(ValuesOver(S)))
  /\ \A r \in 1 .. Len(t.rows) : Len(t.rows[r]) = Len(t.names)

\* The tables of the model are tables over strings.
LEMMA TabularOver ==
  ASSUME NEW t, Tabular(t)
  PROVE  TableOver(STRING, t)
BY DEF Tabular, TableOver, ValuesOver, Values, Strings

\* What a table holds in one of its columns.
LEMMA CellOf ==
  ASSUME NEW S, NEW t, TableOver(S, t), NEW c \in Columns(t)
  PROVE  /\ t.types[c] \in ColTypes /\ t.names[c] \in Seq(S)
         /\ Len(t.rows) \in Nat /\ DOMAIN t.rows = 1 .. Len(t.rows)
         /\ \A r \in 1 .. Len(t.rows) : t.rows[r][c] \in ValuesOver(S)
<1>1. c \in 1 .. Len(t.names) /\ c \in 1 .. Len(t.types)
  BY DEF TableOver, Columns
<1>2. t.types[c] \in ColTypes /\ t.names[c] \in Seq(S)
  BY <1>1 DEF TableOver
<1>3. ASSUME NEW r \in 1 .. Len(t.rows) PROVE t.rows[r][c] \in ValuesOver(S)
  <2>1. t.rows[r] \in Seq(ValuesOver(S)) /\ c \in 1 .. Len(t.rows[r])
    BY <1>1 DEF TableOver
  <2> QED BY <2>1
<1>4. Len(t.rows) \in Nat /\ DOMAIN t.rows = 1 .. Len(t.rows)
  BY DEF TableOver
<1> QED BY <1>2, <1>3, <1>4

\* A name is cut to the cap (main.go:645-651).
LEMMA LabelFits ==
  ASSUME NEW S, NEW t, TableOver(S, t), NEW c \in Columns(t)
  PROVE  /\ Label(t, c) \in Seq(Letters(S)) /\ Len(Label(t, c)) \in 0 .. Cap
<1>1. t.names[c] \in Seq(S) /\ Cap \in Nat \ {0}
  BY CellOf, CapAssumption
<1>2. Len(Label(t, c)) \in 0 .. Cap
  BY <1>1, PreviewFits DEF Label
<1>3. S \subseteq Letters(S)
  BY DEF Letters
<1>4. t.names[c] \in Seq(Letters(S))
  BY <1>1, <1>3, Wider
<1>5. previewStr(t.names[c], Cap) \in Seq(Letters(S))
  <2>1. "." \in Letters(S)
    BY DEF Letters
  <2> QED BY <1>1, <1>4, <2>1, PreviewType
<1> QED BY <1>2, <1>5 DEF Label

\* A column is at least as wide as its name and as every value that fits into
\* the widest column; one with a value that does not is as wide as that.
LEMMA ColumnWide ==
  ASSUME NEW S, NEW t, TableOver(S, t), NEW c \in Columns(t)
  PROVE  /\ columnWidth(t, c) \in 0 .. Cap
         /\ Len(Label(t, c)) <= columnWidth(t, c)
         /\ \A r \in 1 .. Len(t.rows) :
              /\ Len(Cell(t, r, c)) \in Nat
              /\ Len(Cell(t, r, c)) <= Cap => Len(Cell(t, r, c)) <= columnWidth(t, c)
              /\ Len(Cell(t, r, c)) > Cap => columnWidth(t, c) = Cap
<1> DEFINE n == Len(t.rows)
           m(r) == measureCellWidth(t.types[c], t.rows[r][c])
           f == [r \in 1 .. n |-> m(r)]
           k == Len(Label(t, c))
           V == {k} \cup {f[r] : r \in 1 .. n}
           W == {k} \cup {m(r) : r \in 1 .. n}
<1>1. n \in Nat /\ DOMAIN t.rows = 1 .. n /\ t.types[c] \in ColTypes
      /\ \A r \in 1 .. n : t.rows[r][c] \in ValuesOver(S)
  BY CellOf
<1>2. ASSUME NEW r \in 1 .. n
      PROVE  /\ m(r) \in Nat /\ Len(Cell(t, r, c)) \in Nat
             /\ Len(Cell(t, r, c)) <= Cap => m(r) = Len(Cell(t, r, c))
             /\ Len(Cell(t, r, c)) > Cap => m(r) >= Cap
  BY <1>1, MeasureAgrees, CellText DEF Cell
<1>3. k \in 0 .. Cap
  BY LabelFits
<1>4. columnWidth(t, c) = clamp(Max(W))
  BY <1>1 DEF columnWidth
<1>5. W = V
  OBVIOUS
<1> HIDE DEF k, n, m
<1>6. \A r \in 1 .. n : f[r] \in Nat /\ f[r] = m(r)
  BY <1>2
<1>7. k \in V /\ \A r \in 1 .. n : m(r) \in V
  BY <1>6
<1> HIDE DEF f
<1>8. Max(V) \in Nat /\ \A y \in V : Max(V) >= y
  <2>1. V = {k} \cup {f[r] : r \in 1 .. n} /\ k \in Nat
    BY <1>3
  <2> HIDE DEF V
  <2> QED BY <1>1, <1>6, <2>1, Greatest
<1> HIDE DEF V, W
<1> DEFINE w == Max(V)
<1>9. w \in Nat /\ w >= k /\ \A r \in 1 .. n : w >= m(r)
  BY <1>7, <1>8
<1> HIDE DEF w
<1>10. clamp(w) \in 0 .. Cap /\ (w <= Cap => clamp(w) = w) /\ (w > Cap => clamp(w) = Cap)
  BY <1>9, ClampRange, CapAssumption
<1>11. columnWidth(t, c) = clamp(w)
  BY <1>4, <1>5 DEF w
<1>12. clamp(w) >= k
  BY <1>3, <1>9, <1>10, CapAssumption
<1>13. ASSUME NEW r \in 1 .. n
       PROVE  /\ Len(Cell(t, r, c)) \in Nat
              /\ Len(Cell(t, r, c)) <= Cap => Len(Cell(t, r, c)) <= clamp(w)
              /\ Len(Cell(t, r, c)) > Cap => clamp(w) = Cap
  <2> DEFINE l == Len(Cell(t, r, c))
  <2>1. /\ m(r) \in Nat /\ l \in Nat /\ w >= m(r)
        /\ (l <= Cap => m(r) = l) /\ (l > Cap => m(r) >= Cap)
    BY <1>2, <1>9
  <2> HIDE DEF l
  <2>2. l \in Nat /\ (l <= Cap => l <= clamp(w)) /\ (l > Cap => clamp(w) = Cap)
    BY <1>9, <1>10, <2>1, CapAssumption
  <2> QED BY <2>2 DEF l
<1> QED BY <1>10, <1>11, <1>12, <1>13 DEF k, n

\* A duckbox column is at least 1 and at most Cap wide, and no narrower than
\* the column without its type label (main.go:667-702).
LEMMA DuckboxWide ==
  ASSUME NEW S, NEW t, TableOver(S, t), NEW c \in Columns(t)
  PROVE  /\ duckboxWidth(t, c) \in 1 .. Cap
         /\ columnWidth(t, c) <= duckboxWidth(t, c)
         /\ TypeLabel(t.types[c]) \in Seq({"t"})
<1> DEFINE n == Len(PhysicalTypeLabel[t.types[c]])
           k == columnWidth(t, c)
           l == Len(TypeLabel(t.types[c]))
<1>1. n \in Nat \ {0} /\ k \in 0 .. Cap
  BY CellOf, ColumnWide, LabelsTotal
<1>2. TypeLabel(t.types[c]) = [i \in 1 .. n |-> "t"]
  BY DEF TypeLabel
<1> HIDE DEF n
<1>3. l = n /\ TypeLabel(t.types[c]) \in Seq({"t"})
  BY <1>1, <1>2
<1>4. duckboxWidth(t, c) = clamp(Max({k, l}))
  BY DEF duckboxWidth
<1> HIDE DEF k, l
<1> DEFINE V == {k, l}
           m == Max(V)
<1>5. m \in Nat /\ m >= k /\ m >= l
  <2>1. \A y \in V : y \in Nat
    BY <1>1, <1>3
  <2>2. \E x \in V : \A y \in V : x >= y
    BY <1>1, <1>3
  <2>3. k \in V /\ l \in V
    OBVIOUS
  <2> HIDE DEF V
  <2>4. Max(V) \in V /\ \A y \in V : Max(V) >= y
    BY <2>1, <2>2, MaxOf
  <2> QED BY <2>1, <2>3, <2>4
<1> HIDE DEF V, m
<1>6. clamp(m) \in 0 .. Cap /\ (m <= Cap => clamp(m) = m) /\ (m > Cap => clamp(m) = Cap)
  BY <1>5, ClampRange, CapAssumption
<1>7. clamp(m) \in 1 .. Cap /\ k <= clamp(m)
  BY <1>1, <1>3, <1>5, <1>6, CapAssumption
<1> QED BY <1>3, <1>4, <1>7 DEF V, m, k

\* What is shown of a value: it fits into its column, and a value that fits
\* into the widest column is shown whole.
LEMMA Shown ==
  ASSUME NEW S, NEW t, TableOver(S, t), NEW c \in Columns(t),
         NEW r \in 1 .. Len(t.rows), NEW w \in 0 .. Cap, columnWidth(t, c) <= w
  PROVE  /\ previewStr(Cell(t, r, c), w) \in Seq(Letters(S))
         /\ Len(previewStr(Cell(t, r, c), w)) \in 0 .. w
         /\ Len(Cell(t, r, c)) <= Cap => previewStr(Cell(t, r, c), w) = Cell(t, r, c)
<1> DEFINE s == Cell(t, r, c)
           k == columnWidth(t, c)
<1>1. s \in Seq(Letters(S)) /\ "." \in Letters(S)
  <2>1. t.types[c] \in ColTypes /\ t.rows[r][c] \in ValuesOver(S)
    BY CellOf
  <2>2. s \in Seq(Letters(S))
    BY <2>1, CellText DEF Cell
  <2> QED BY <2>2 DEF Letters
<1>2. /\ k \in 0 .. Cap /\ Len(s) \in Nat
      /\ Len(s) <= Cap => Len(s) <= k
      /\ Len(s) > Cap => k = Cap
  BY ColumnWide
<1> HIDE DEF s, k
<1>3. CASE w = 0
  <2>1. Len(s) = 0
    BY <1>2, <1>3, CapAssumption DEF k
  <2>2. previewStr(s, w) = s
    BY <1>3, <2>1 DEF previewStr
  <2>3. previewStr(s, w) \in Seq(Letters(S))
    BY <1>1, <2>2
  <2>4. Len(previewStr(s, w)) \in 0 .. w
    BY <1>3, <2>1, <2>2
  <2> QED BY <2>2, <2>3, <2>4 DEF s
<1>4. CASE w # 0
  <2>1. w \in Nat \ {0}
    BY <1>4
  <2>2. Len(previewStr(s, w)) \in 0 .. w /\ (Len(s) <= w => previewStr(s, w) = s)
    BY <1>1, <2>1, PreviewFits
  <2>3. previewStr(s, w) \in Seq(Letters(S))
    BY <1>1, <2>1, PreviewType
  <2>4. Len(s) <= Cap => Len(s) <= w
    BY <1>2 DEF k
  <2> QED BY <2>2, <2>3, <2>4 DEF s
<1> QED BY <1>3, <1>4
-----------------------------------------------------------------------------
(***************************************************************************)
(* The lines of a table.                                                   *)
(***************************************************************************)
\* A field of a table: a text between a border, blanks and blanks.
LEMMA TableFieldWidth ==
  ASSUME NEW S, NEW s \in Seq(S), NEW w \in Nat, Len(s) \in 0 .. w
  PROVE  Width(TableField(s, w)) = w + 3 /\ TableField(s, w).text = s
<1> DEFINE D == {" ", "|", "-"}
           n == w - Len(s)
           f == TableField(s, w)
<1>1. n \in Nat
  OBVIOUS
<1>2. f.before = Bar \o Blank /\ f.text = s /\ f.after = Blanks(n) \o Blank
  BY DEF TableField, Field
<1> HIDE DEF n, f
<1>3. Blanks(n) \in Seq(D) /\ Len(Blanks(n)) = n
  BY <1>1, BlanksLen
<1>4. Blank \in Seq(D) /\ Len(Blank) = 1 /\ Len(Bar \o Blank) = 2
  BY BarsLen
<1> HIDE DEF D
<1>5. Len(Blanks(n) \o Blank) = n + 1
  BY <1>3, <1>4, ConcatLen
<1>6. Width(f) = 2 + Len(s) + (n + 1)
  BY <1>2, <1>4, <1>5 DEF Width
<1> QED BY <1>2, <1>6 DEF n, f

\* A duckbox cell with its border and blanks is 3 wider than its column and
\* has the whole text if that fits.
LEMMA DuckboxFieldWidth ==
  ASSUME NEW S, NEW s \in Seq(S), NEW w \in 1 .. Cap, NEW align \in {"l", "c", "r"}
  PROVE  /\ Width(DuckboxField(s, w, align)) = w + 3
         /\ Len(s) <= w => DuckboxField(s, w, align).text = s
<1> DEFINE D == {" ", "|", "-"}
           p == duckboxPadPrint(s, w, align)
           f == DuckboxField(s, w, align)
<1>1. PICK a \in Nat, b \in Nat :
        /\ Width(p) = w /\ (Len(s) <= w => p.text = s) /\ Len(p.text) \in Nat
        /\ p.before = Blanks(a) /\ p.after = Blanks(b)
  BY PaddedToWidth
<1>2. f.before = (Bar \o Blank) \o p.before /\ f.text = p.text /\ f.after = p.after \o Blank
  BY DEF DuckboxField, Field
<1> HIDE DEF p, f
<1> DEFINE x == Blanks(a)
           y == Blanks(b)
           lead == Bar \o Blank
<1>3. x \in Seq(D) /\ Len(x) = a /\ y \in Seq(D) /\ Len(y) = b
  BY BlanksLen
<1>4. Blank \in Seq(D) /\ Len(Blank) = 1 /\ lead \in Seq(D) /\ Len(lead) = 2
  BY BarsLen
<1> HIDE DEF D, x, y, lead
<1>5. Len(y \o Blank) = b + 1
  BY <1>3, <1>4, ConcatLen
<1>6. Len(lead \o x) = 2 + a
  BY <1>3, <1>4, ConcatLen
<1>7. w = a + Len(p.text) + b
  BY <1>1, <1>3 DEF Width, x, y
<1>8. Width(f) = (2 + a) + Len(p.text) + (b + 1)
  BY <1>1, <1>2, <1>5, <1>6 DEF Width, x, y, lead
<1>9. Len(p.text) \in Int
  BY <1>1
<1> DEFINE k == Len(p.text)
<1> HIDE DEF k
<1>10. w = a + k + b /\ Width(f) = (2 + a) + k + (b + 1) /\ k \in Int
  BY <1>7, <1>8, <1>9 DEF k
<1>11. Width(f) = w + 3
  BY <1>10
<1> QED BY <1>1, <1>2, <1>11 DEF f

\* A piece of a rule is 3 wider than its column (main.go:704-738, 1034-1046).
LEMMA RuleFieldWidth ==
  ASSUME NEW w \in 0 .. Cap
  PROVE  Width(Field(Bar, Dashes(clamp(w) + 2), <<>>)) = w + 3
<1> DEFINE d == Dashes(clamp(w) + 2)
           f == Field(Bar, d, <<>>)
<1>1. clamp(w) = w /\ w + 2 \in Nat
  BY ClampRange
<1>2. Len(d) = w + 2
  BY <1>1, BlanksLen
<1>3. Len(Bar) = 1 /\ Len(<<>>) = 0
  BY BarsLen
<1> HIDE DEF d
<1>4. f.before = Bar /\ f.text = d /\ f.after = <<>>
  BY DEF Field
<1> HIDE DEF f
<1>5. Width(f) = 1 + (w + 2) + 0
  BY <1>2, <1>3, <1>4 DEF Width
<1> QED BY <1>5 DEF f, d

\* A line of fields with a border at its end.
LEMMA Edged ==
  ASSUME NEW n \in Nat, NEW q, q = [c \in 1 .. n |-> q[c]]
  PROVE  /\ DOMAIN Append(q, Edge) = 1 .. n + 1
         /\ \A c \in 1 .. n : Append(q, Edge)[c] = q[c]
         /\ Append(q, Edge)[n + 1] = Edge
<1> DEFINE F == {q[c] : c \in 1 .. n} \cup {Edge}
           e == Edge
<1>1. \A c \in 1 .. n : q[c] \in F
  OBVIOUS
<1>2. q \in [1 .. n -> F] /\ e \in F
  BY <1>1
<1> HIDE DEF F, e
<1>3. q \in Seq(F) /\ Len(q) = n
  BY <1>2
<1> QED BY <1>2, <1>3 DEF e

LayoutWidth(layout, t, c) ==
  IF layout = "duckbox" THEN duckboxWidth(t, c) ELSE columnWidth(t, c)

\* Every field of a line is as wide as its column.
Ruled(line, layout, t) ==
  /\ DOMAIN line = 1 .. Len(t.names) + 1
  /\ \A c \in 1 .. Len(t.names) : Width(line[c]) = LayoutWidth(layout, t, c) + 3
  /\ \A c \in DOMAIN line : c = Len(t.names) + 1 => Width(line[c]) = 1

\* Any two lines ruled for a table have columns of the same widths.
LEMMA RuledAlike ==
  ASSUME NEW layout, NEW t, Len(t.names) \in Nat,
         NEW line, Ruled(line, layout, t), NEW other, Ruled(other, layout, t)
  PROVE  /\ DOMAIN line = DOMAIN other
         /\ \A c \in DOMAIN other : Width(line[c]) = Width(other[c])
<1> DEFINE n == Len(t.names)
<1>1. \A c \in 1 .. n + 1 : c \in 1 .. n \/ c = n + 1
  OBVIOUS
<1> QED BY <1>1 DEF Ruled

\* A line whose cells are 3 wider than their columns, closed by a bar, is
\* ruled for its table.
LEMMA RuledLine ==
  ASSUME NEW layout, NEW t, Len(t.names) \in Nat,
         NEW q, q = [c \in 1 .. Len(t.names) |-> q[c]],
         \A c \in 1 .. Len(t.names) : Width(q[c]) = LayoutWidth(layout, t, c) + 3
  PROVE  Ruled(Append(q, Edge), layout, t)
<1> DEFINE n == Len(t.names)
<1>1. /\ DOMAIN Append(q, Edge) = 1 .. n + 1
      /\ \A c \in 1 .. n : Append(q, Edge)[c] = q[c]
      /\ Append(q, Edge)[n + 1] = Edge
  BY Edged
<1>2. Width(Edge) = 1
  BY BarsLen
<1> DEFINE a == Append(q, Edge)
<1> HIDE DEF a
<1>3. Ruled(a, layout, t)
  BY <1>1, <1>2 DEF Ruled, a
<1> QED BY <1>3 DEF a

\* The line of names of an ascii table (main.go:1016-1030).
LEMMA TableNamesRuled ==
  ASSUME NEW S, NEW t, TableOver(S, t), NEW layout, layout # "duckbox"
  PROVE  Ruled(TableNames(t), layout, t)
<1> DEFINE q == [c \in 1 .. Len(t.names) |-> TableField(Label(t, c), columnWidth(t, c))]
<1>1. ASSUME NEW c \in 1 .. Len(t.names)
      PROVE  Width(q[c]) = LayoutWidth(layout, t, c) + 3
  <2> DEFINE s == Label(t, c)
             w == columnWidth(t, c)
  <2>1. c \in Columns(t)
    BY DEF Columns
  <2>2. s \in Seq(Letters(S)) /\ Len(s) \in 0 .. Cap /\ w \in 0 .. Cap /\ Len(s) <= w
    BY <2>1, LabelFits, ColumnWide
  <2>3. q[c] = TableField(s, w) /\ LayoutWidth(layout, t, c) = w
    BY DEF LayoutWidth
  <2> HIDE DEF s, w, q
  <2>4. w \in Nat /\ Len(s) \in 0 .. w
    BY <2>2, CapAssumption
  <2> QED BY <2>2, <2>3, <2>4, TableFieldWidth
<1>2. TableNames(t) = Append(q, Edge)
  BY DEF TableNames, Columns
<1>3. q = [c \in 1 .. Len(t.names) |-> q[c]] /\ Len(t.names) \in Nat
  BY DEF TableOver
<1> HIDE DEF q
<1> QED BY <1>1, <1>2, <1>3, RuledLine

\* The line of dashes of an ascii table (main.go:1032-1046).
LEMMA TableRuleRuled ==
  ASSUME NEW S, NEW t, TableOver(S, t), NEW layout, layout # "duckbox"
  PROVE  Ruled(TableRule(t, FALSE), layout, t)
<1> DEFINE F(c) == Field(Bar, Dashes(clamp(columnWidth(t, c)) + 2), <<>>)
           q == [c \in 1 .. Len(t.names) |-> F(c)]
<1>0. Bar \o <<>> = Bar
  BY DEF Bar
<1>1. ASSUME NEW c \in 1 .. Len(t.names)
      PROVE  Width(q[c]) = LayoutWidth(layout, t, c) + 3
  <2> DEFINE w == columnWidth(t, c)
  <2>1. w \in 0 .. Cap
    BY ColumnWide DEF Columns
  <2>2. q[c] = Field(Bar, Dashes(clamp(w) + 2), <<>>) /\ LayoutWidth(layout, t, c) = w
    BY DEF LayoutWidth
  <2> HIDE DEF w, q
  <2> QED BY <2>1, <2>2, RuleFieldWidth
<1>2. TableRule(t, FALSE) = Append(q, Edge)
  BY <1>0 DEF TableRule, Columns
<1>3. q = [c \in 1 .. Len(t.names) |-> q[c]] /\ Len(t.names) \in Nat
  BY DEF TableOver
<1> HIDE DEF q
<1> QED BY <1>1, <1>2, <1>3, RuledLine

\* A row of an ascii or markdown table (main.go:1048-1064).
LEMMA TableRowRuled ==
  ASSUME NEW S, NEW t, TableOver(S, t), NEW layout, layout # "duckbox",
         NEW r \in 1 .. Len(t.rows)
  PROVE  /\ Ruled(TableRow(t, r), layout, t)
         /\ \A c \in Columns(t) : Len(Cell(t, r, c)) <= Cap =>
              TableRow(t, r)[c].text = Cell(t, r, c)
<1> DEFINE F(c) == TableField(previewStr(Cell(t, r, c), columnWidth(t, c)), columnWidth(t, c))
           q == [c \in 1 .. Len(t.names) |-> F(c)]
<1>1. ASSUME NEW c \in 1 .. Len(t.names)
      PROVE  /\ Width(q[c]) = LayoutWidth(layout, t, c) + 3
             /\ Len(Cell(t, r, c)) <= Cap => q[c].text = Cell(t, r, c)
  <2> DEFINE s == previewStr(Cell(t, r, c), columnWidth(t, c))
             w == columnWidth(t, c)
  <2>1. c \in Columns(t)
    BY DEF Columns
  <2>2. w \in 0 .. Cap /\ w <= w
    BY <2>1, ColumnWide, CapAssumption
  <2>3. s \in Seq(Letters(S)) /\ Len(s) \in 0 .. w
        /\ (Len(Cell(t, r, c)) <= Cap => s = Cell(t, r, c))
    BY <2>1, <2>2, Shown
  <2>4. q[c] = TableField(s, w) /\ LayoutWidth(layout, t, c) = w
    BY DEF LayoutWidth
  <2> HIDE DEF s, w, q
  <2>5. w \in Nat
    BY <2>2, CapAssumption
  <2> QED BY <2>3, <2>4, <2>5, TableFieldWidth
<1>2. TableRow(t, r) = Append(q, Edge)
  BY DEF TableRow, Columns
<1>3. q = [c \in 1 .. Len(t.names) |-> q[c]] /\ Len(t.names) \in Nat
  BY DEF TableOver
<1> HIDE DEF q
<1>4. Ruled(TableRow(t, r), layout, t)
  BY <1>1, <1>2, <1>3, RuledLine
<1>5. \A c \in 1 .. Len(t.names) : TableRow(t, r)[c] = q[c]
  BY <1>2, <1>3, Edged
<1> QED BY <1>1, <1>4, <1>5 DEF Columns

\* The rules of a duckbox table (main.go:704-738).
LEMMA DuckboxRuleRuled ==
  ASSUME NEW S, NEW t, TableOver(S, t)
  PROVE  Ruled(DuckboxRule(t), "duckbox", t)
<1> DEFINE F(c) == Field(Bar, Dashes(clamp(duckboxWidth(t, c)) + 2), <<>>)
           q == [c \in 1 .. Len(t.names) |-> F(c)]
<1>1. ASSUME NEW c \in 1 .. Len(t.names)
      PROVE  Width(q[c]) = LayoutWidth("duckbox", t, c) + 3
  <2> DEFINE w == duckboxWidth(t, c)
  <2>1. w \in 0 .. Cap
    BY DuckboxWide DEF Columns
  <2>2. q[c] = Field(Bar, Dashes(clamp(w) + 2), <<>>) /\ LayoutWidth("duckbox", t, c) = w
    BY DEF LayoutWidth
  <2> HIDE DEF w, q
  <2> QED BY <2>1, <2>2, RuleFieldWidth
<1>2. DuckboxRule(t) = Append(q, Edge)
  BY DEF DuckboxRule, Columns
<1>3. q = [c \in 1 .. Len(t.names) |-> q[c]] /\ Len(t.names) \in Nat
  BY DEF TableOver
<1> HIDE DEF q
<1> QED BY <1>1, <1>2, <1>3, RuledLine

\* The line of names of a duckbox table (main.go:795-807).
LEMMA DuckboxNamesRuled ==
  ASSUME NEW S, NEW t, TableOver(S, t)
  PROVE  Ruled(DuckboxNames(t), "duckbox", t)
<1> DEFINE q == [c \in 1 .. Len(t.names) |-> DuckboxField(Label(t, c), duckboxWidth(t, c), "l")]
<1>1. ASSUME NEW c \in 1 .. Len(t.names)
      PROVE  Width(q[c]) = LayoutWidth("duckbox", t, c) + 3
  <2> DEFINE s == Label(t, c)
             w == duckboxWidth(t, c)
  <2>1. c \in Columns(t)
    BY DEF Columns
  <2>2. s \in Seq(Letters(S)) /\ w \in 1 .. Cap
    BY <2>1, LabelFits, DuckboxWide
  <2>3. q[c] = DuckboxField(s, w, "l") /\ LayoutWidth("duckbox", t, c) = w
    BY DEF LayoutWidth
  <2> HIDE DEF s, w, q
  <2> QED BY <2>2, <2>3, DuckboxFieldWidth
<1>2. DuckboxNames(t) = Append(q, Edge)
  BY DEF DuckboxNames, Columns
<1>3. q = [c \in 1 .. Len(t.names) |-> q[c]] /\ Len(t.names) \in Nat
  BY DEF TableOver
<1> HIDE DEF q
<1> QED BY <1>1, <1>2, <1>3, RuledLine

\* The line of types of a duckbox table (main.go:809-821).
LEMMA DuckboxTypesRuled ==
  ASSUME NEW S, NEW t, TableOver(S, t)
  PROVE  Ruled(DuckboxTypes(t), "duckbox", t)
<1> DEFINE q == [c \in 1 .. Len(t.names) |->
                  DuckboxField(TypeLabel(t.types[c]), duckboxWidth(t, c), "c")]
<1>1. ASSUME NEW c \in 1 .. Len(t.names)
      PROVE  Width(q[c]) = LayoutWidth("duckbox", t, c) + 3
  <2> DEFINE s == TypeLabel(t.types[c])
             w == duckboxWidth(t, c)
  <2>1. c \in Columns(t)
    BY DEF Columns
  <2>2. s \in Seq({"t"}) /\ w \in 1 .. Cap
    BY <2>1, DuckboxWide
  <2>3. q[c] = DuckboxField(s, w, "c") /\ LayoutWidth("duckbox", t, c) = w
    BY DEF LayoutWidth
  <2> HIDE DEF s, w, q
  <2> QED BY <2>2, <2>3, DuckboxFieldWidth
<1>2. DuckboxTypes(t) = Append(q, Edge)
  BY DEF DuckboxTypes, Columns
<1>3. q = [c \in 1 .. Len(t.names) |-> q[c]] /\ Len(t.names) \in Nat
  BY DEF TableOver
<1> HIDE DEF q
<1> QED BY <1>1, <1>2, <1>3, RuledLine

\* A row of a duckbox table (main.go:825-844).
LEMMA DuckboxRowRuled ==
  ASSUME NEW S, NEW t, TableOver(S, t), NEW r \in 1 .. Len(t.rows)
  PROVE  /\ Ruled(DuckboxRow(t, r), "duckbox", t)
         /\ \A c \in Columns(t) : Len(Cell(t, r, c)) <= Cap =>
              DuckboxRow(t, r)[c].text = Cell(t, r, c)
<1> DEFINE A(c) == IF t.types[c] \in Numeric THEN "r" ELSE "l"
           F(c) == DuckboxField(previewStr(Cell(t, r, c), duckboxWidth(t, c)),
                                duckboxWidth(t, c), A(c))
           q == [c \in 1 .. Len(t.names) |-> F(c)]
<1>1. ASSUME NEW c \in 1 .. Len(t.names)
      PROVE  /\ Width(q[c]) = LayoutWidth("duckbox", t, c) + 3
             /\ Len(Cell(t, r, c)) <= Cap => q[c].text = Cell(t, r, c)
  <2> DEFINE s == previewStr(Cell(t, r, c), duckboxWidth(t, c))
             w == duckboxWidth(t, c)
             align == A(c)
  <2>1. c \in Columns(t)
    BY DEF Columns
  <2>2. w \in 1 .. Cap /\ w \in 0 .. Cap /\ columnWidth(t, c) <= w
    BY <2>1, DuckboxWide
  <2>3. s \in Seq(Letters(S)) /\ Len(s) \in 0 .. w
        /\ (Len(Cell(t, r, c)) <= Cap => s = Cell(t, r, c))
    BY <2>1, <2>2, Shown
  <2>4. align \in {"l", "c", "r"}
    OBVIOUS
  <2>5. q[c] = DuckboxField(s, w, align) /\ LayoutWidth("duckbox", t, c) = w
    BY DEF LayoutWidth
  <2> HIDE DEF s, w, align, q
  <2>6. Len(s) <= w
    BY <2>3
  <2> QED BY <2>2, <2>3, <2>4, <2>5, <2>6, DuckboxFieldWidth
<1>2. DuckboxRow(t, r) = Append(q, Edge)
  BY DEF DuckboxRow, Columns
<1>3. q = [c \in 1 .. Len(t.names) |-> q[c]] /\ Len(t.names) \in Nat
  BY DEF TableOver
<1> HIDE DEF q
<1>4. Ruled(DuckboxRow(t, r), "duckbox", t)
  BY <1>1, <1>2, <1>3, RuledLine
<1>5. \A c \in 1 .. Len(t.names) : DuckboxRow(t, r)[c] = q[c]
  BY <1>2, <1>3, Edged
<1> QED BY <1>1, <1>4, <1>5 DEF Columns
-----------------------------------------------------------------------------
(***************************************************************************)
(* What is printed of a result.                                            *)
(***************************************************************************)
PrintModes == {"csv", "json", "markdown", "duckbox", "column", "ascii"}

\* The heading and the first n rows.
Lines(layout, t, n) ==
  [i \in 1 .. Len(Heading(layout, t)) + n |->
     IF i <= Len(Heading(layout, t)) THEN Heading(layout, t)[i]
     ELSE RowLine(layout, t, i - Len(Heading(layout, t)))]

\* A sequence of n elements.
Row(u, n) == n \in Nat /\ u = [i \in 1 .. n |-> u[i]]

Joined(u, v, w) ==
  /\ DOMAIN w = 1 .. Len(u) + Len(v)
  /\ \A i \in 1 .. Len(u) : w[i] = u[i]
  /\ \A i \in 1 .. Len(v) : w[Len(u) + i] = v[i]

\* A function on 1 .. n is a sequence of length n.
LEMMA RowOver ==
  ASSUME NEW u, NEW n, Row(u, n)
  PROVE  n \in Nat /\ Len(u) = n /\ \E F : u \in Seq(F)
<1> DEFINE F == {u[i] : i \in 1 .. n}
<1>1. \A i \in 1 .. n : u[i] \in F
  OBVIOUS
<1>2. n \in Nat /\ u \in [1 .. n -> F]
  BY <1>1 DEF Row
<1> HIDE DEF F
<1>3. u \in Seq(F) /\ Len(u) = n
  BY <1>2
<1> QED BY <1>2, <1>3

\* A sequence is a function on 1 .. n for its length n.
LEMMA SeqRow ==
  ASSUME NEW F, NEW u \in Seq(F)
  PROVE  Row(u, Len(u))
BY DEF Row

\* A concatenation, index by index.
LEMMA ConcatJoined ==
  ASSUME NEW m, NEW n, NEW u, Row(u, m), NEW v, Row(v, n)
  PROVE  Len(u) = m /\ Len(v) = n /\ Joined(u, v, u \o v)
<1>1. PICK F : u \in Seq(F)
  BY RowOver
<1>2. PICK G : v \in Seq(G)
  BY RowOver
<1> DEFINE H == F \cup G
<1>3. F \subseteq H /\ G \subseteq H
  OBVIOUS
<1> HIDE DEF H
<1>4. u \in Seq(H) /\ v \in Seq(H)
  BY <1>1, <1>2, <1>3, Wider
<1>5. Len(u) = m /\ Len(v) = n
  BY RowOver
<1> QED BY <1>4, <1>5 DEF Joined

\* Appending the last element of a sequence to the others.
LEMMA AppendRow ==
  ASSUME NEW n \in Nat, NEW k \in Nat, k = n + 1, NEW u, Row(u, n), NEW v, Row(v, k),
         \A i \in 1 .. n : u[i] = v[i]
  PROVE  Append(u, v[k]) = v
<1> DEFINE F == {v[i] : i \in 1 .. k}
           e == v[k]
<1>1. (\A i \in 1 .. k : v[i] \in F) /\ e \in F
  OBVIOUS
<1> HIDE DEF F
<1>2. (\A i \in 1 .. n : u[i] \in F) /\ \A i \in 1 .. k : i \in 1 .. n \/ i = k
  BY <1>1
<1>3. u \in [1 .. n -> F] /\ v \in [1 .. k -> F]
  BY <1>1, <1>2 DEF Row
<1>4. u \in Seq(F) /\ v \in Seq(F) /\ Len(u) = n /\ Len(v) = k
  BY <1>3
<1> DEFINE w == Append(u, e)
<1>5. w \in Seq(F) /\ Len(w) = n + 1 /\ w[n + 1] = e /\ \A i \in 1 .. n : w[i] = u[i]
  BY <1>1, <1>4 DEF w
<1> HIDE DEF w
<1>6. \A i \in 1 .. k : w[i] = v[i]
  BY <1>2, <1>5 DEF e
<1>7. w = v
  BY <1>4, <1>5, <1>6
<1> QED BY <1>7 DEF w, e

\* The sequences written out in the layouts, and their lengths.
LEMMA Tuples ==
  ASSUME NEW a, NEW b, NEW c
  PROVE  /\ Row(<<>>, 0) /\ Row(<<a>>, 1) /\ Row(<<a, b>>, 2)
         /\ Row(<<a, b, c, a>>, 4)
<1>1. Row(<<>>, 0)
  BY DEF Row
<1>2. <<a>> \in Seq({a}) /\ Len(<<a>>) = 1
  OBVIOUS
<1>3. <<a, b>> \in Seq({a, b}) /\ Len(<<a, b>>) = 2
  OBVIOUS
<1>4. <<a, b, c, a>> \in Seq({a, b, c}) /\ Len(<<a, b, c, a>>) = 4
  OBVIOUS
<1> QED BY <1>1, <1>2, <1>3, <1>4, SeqRow

\* A heading is a sequence of lines in every layout (main.go:622-637).
LEMMA HeadingRow ==
  ASSUME NEW layout \in PrintModes, NEW t
  PROVE  Row(Heading(layout, t), Len(Heading(layout, t)))
<1>1. \E n : Row(Heading(layout, t), n)
  <2>1. CASE layout = "csv"
    BY <2>1, Tuples DEF Heading
  <2>2. CASE layout = "json"
    BY <2>2, Tuples DEF Heading
  <2>3. CASE layout = "column"
    BY <2>3, Tuples DEF Heading
  <2>4. CASE layout = "ascii"
    BY <2>4, Tuples DEF Heading
  <2>5. CASE layout = "markdown"
    BY <2>5, Tuples DEF Heading
  <2>6. CASE layout = "duckbox"
    BY <2>6, Tuples DEF Heading
  <2> QED BY <2>1, <2>2, <2>3, <2>4, <2>5, <2>6 DEF PrintModes
<1> QED BY <1>1, RowOver

\* An ending is a sequence of lines in every layout.
LEMMA EndingRow ==
  ASSUME NEW layout \in PrintModes, NEW t
  PROVE  Row(Ending(layout, t), Len(Ending(layout, t)))
<1>1. \E n : Row(Ending(layout, t), n)
  <2>1. CASE layout = "json"
    BY <2>1, Tuples DEF Ending
  <2>2. CASE layout = "duckbox"
    BY <2>2, Tuples DEF Ending
  <2>3. CASE layout \in {"csv", "column", "ascii", "markdown"}
    BY <2>3, Tuples DEF Ending
  <2> QED BY <2>1, <2>2, <2>3 DEF PrintModes
<1> QED BY <1>1, RowOver

\* The n-th row is the n-th line after the heading.
LEMMA LinesOf ==
  ASSUME NEW layout \in PrintModes, NEW t, NEW n \in Nat
  PROVE  /\ Len(Heading(layout, t)) \in Nat
         /\ Row(Lines(layout, t, n), Len(Heading(layout, t)) + n)
         /\ Len(Lines(layout, t, n)) = Len(Heading(layout, t)) + n
         /\ \A i \in 1 .. Len(Heading(layout, t)) :
              Lines(layout, t, n)[i] = Heading(layout, t)[i]
         /\ \A r \in 1 .. n :
              Lines(layout, t, n)[Len(Heading(layout, t)) + r] = RowLine(layout, t, r)
<1> DEFINE h == Heading(layout, t)
           k == Len(h)
           g == Lines(layout, t, n)
<1>1. k \in Nat
  BY HeadingRow, RowOver
<1>2. g = [i \in 1 .. k + n |-> IF i <= k THEN h[i] ELSE RowLine(layout, t, i - k)]
  BY DEF Lines
<1> HIDE DEF h, k, g
<1>3. Row(g, k + n)
  BY <1>1, <1>2 DEF Row
<1>4. Len(g) = k + n
  BY <1>3, RowOver
<1>5. \A i \in 1 .. k : g[i] = h[i]
  BY <1>1, <1>2
<1>6. ASSUME NEW r \in 1 .. n PROVE g[k + r] = RowLine(layout, t, r)
  <2>1. k + r \in 1 .. k + n /\ ~(k + r <= k) /\ (k + r) - k = r
    BY <1>1
  <2> QED BY <1>2, <2>1
<1> QED BY <1>1, <1>3, <1>4, <1>5, <1>6 DEF g, k, h

\* Before the first row, the heading is what is printed.
LEMMA NoLines ==
  ASSUME NEW layout \in PrintModes, NEW t
  PROVE  Lines(layout, t, 0) = Heading(layout, t)
<1> DEFINE h == Heading(layout, t)
           k == Len(h)
           g == Lines(layout, t, 0)
<1>1. k \in Nat /\ Row(h, k) /\ k + 0 = k
  BY HeadingRow, RowOver
<1>2. Row(g, k + 0) /\ \A i \in 1 .. k : g[i] = h[i]
  BY LinesOf
<1> HIDE DEF h, k, g
<1>3. g = h
  BY <1>1, <1>2 DEF Row
<1> QED BY <1>3 DEF g, h

\* One step of the loop over the rows prints the next row.
LEMMA LinesNext ==
  ASSUME NEW layout \in PrintModes, NEW t, NEW n \in Nat, NEW m, m = n + 1
  PROVE  Append(Lines(layout, t, n), RowLine(layout, t, m)) = Lines(layout, t, m)
<1> DEFINE h == Heading(layout, t)
           k == Len(h)
           u == Lines(layout, t, n)
           v == Lines(layout, t, m)
           e == RowLine(layout, t, m)
<1>0. m \in Nat
  OBVIOUS
<1>1. /\ k \in Nat /\ Row(u, k + n) /\ (\A i \in 1 .. k : u[i] = h[i])
      /\ \A r \in 1 .. n : u[k + r] = RowLine(layout, t, r)
  BY LinesOf
<1>2. /\ Row(v, k + m) /\ (\A i \in 1 .. k : v[i] = h[i])
      /\ \A r \in 1 .. m : v[k + r] = RowLine(layout, t, r)
  BY <1>0, LinesOf
<1>3. \A r \in 1 .. m : r = m => v[k + r] = e
  BY <1>2
<1> HIDE DEF h, k, u, v, e
<1>4. v[k + m] = e
  BY <1>3
<1>5. \A r \in 1 .. n : r \in 1 .. m /\ u[k + r] = v[k + r]
  BY <1>1, <1>2
<1>6. ASSUME NEW i \in 1 .. k + n PROVE u[i] = v[i]
  <2>1. CASE i <= k
    <3>1. i \in 1 .. k
      BY <1>1, <2>1
    <3> QED BY <1>1, <1>2, <3>1
  <2>2. CASE i > k
    <3>1. i - k \in 1 .. n /\ k + (i - k) = i
      BY <1>1, <2>2
    <3> QED BY <1>5, <3>1
  <2> QED BY <1>1, <2>1, <2>2
<1>7. k + n \in Nat /\ k + m \in Nat /\ k + m = (k + n) + 1
  BY <1>1
<1> DEFINE a == k + n
           b == k + m
<1>8. a \in Nat /\ b \in Nat /\ b = a + 1 /\ Row(u, a) /\ Row(v, b) /\ v[b] = e
      /\ \A i \in 1 .. a : u[i] = v[i]
  BY <1>1, <1>2, <1>4, <1>6, <1>7
<1> HIDE DEF a, b
<1>9. Append(u, v[b]) = v
  BY <1>8, AppendRow
<1> QED BY <1>8, <1>9 DEF u, v, e

\* Every line of a duckbox or ascii table has fields as wide as its columns.
LEMMA TableRuled ==
  ASSUME NEW S, NEW t, TableOver(S, t), NEW layout \in {"duckbox", "ascii"}
  PROVE  /\ \A i \in 1 .. Len(Heading(layout, t)) : Ruled(Heading(layout, t)[i], layout, t)
         /\ \A r \in 1 .. Len(t.rows) : Ruled(RowLine(layout, t, r), layout, t)
         /\ \A i \in 1 .. Len(Ending(layout, t)) : Ruled(Ending(layout, t)[i], layout, t)
<1>1. CASE layout = "duckbox"
  <2> DEFINE a == DuckboxRule(t)
             b == DuckboxNames(t)
             c == DuckboxTypes(t)
  <2>1. Ruled(a, layout, t) /\ Ruled(b, layout, t) /\ Ruled(c, layout, t)
    BY <1>1, DuckboxRuleRuled, DuckboxNamesRuled, DuckboxTypesRuled
  <2>2. \A r \in 1 .. Len(t.rows) : Ruled(RowLine(layout, t, r), layout, t)
    BY <1>1, DuckboxRowRuled DEF RowLine
  <2>3. Heading(layout, t) = <<a, b, c, a>> /\ Ending(layout, t) = <<a>>
    BY <1>1 DEF Heading, Ending
  <2> HIDE DEF a, b, c
  <2>4. \A i \in 1 .. 4 : Ruled(<<a, b, c, a>>[i], layout, t)
    BY <2>1
  <2>5. \A i \in 1 .. 1 : Ruled(<<a>>[i], layout, t)
    BY <2>1
  <2>6. Len(<<a, b, c, a>>) = 4 /\ Len(<<a>>) = 1
    OBVIOUS
  <2> QED BY <2>2, <2>3, <2>4, <2>5, <2>6
<1>2. CASE layout = "ascii"
  <2> DEFINE a == TableNames(t)
             b == TableRule(t, FALSE)
  <2>1. Ruled(a, layout, t) /\ Ruled(b, layout, t)
    BY <1>2, TableNamesRuled, TableRuleRuled
  <2>2. \A r \in 1 .. Len(t.rows) : Ruled(RowLine(layout, t, r), layout, t)
    BY <1>2, TableRowRuled DEF RowLine
  <2>3. Heading(layout, t) = <<a, b>> /\ Ending(layout, t) = <<>>
    BY <1>2 DEF Heading, Ending
  <2> HIDE DEF a, b
  <2>4. \A i \in 1 .. 2 : Ruled(<<a, b>>[i], layout, t)
    BY <2>1
  <2>5. Len(<<a, b>>) = 2 /\ Len(<<>>) = 0
    OBVIOUS
  <2> QED BY <2>2, <2>3, <2>4, <2>5
<1> QED BY <1>1, <1>2

\* A value that fits into the widest column is printed whole in its field of
\* the row, in every layout that cuts values.
LEMMA RowWhole ==
  ASSUME NEW S, NEW t, TableOver(S, t), NEW layout \in {"duckbox", "ascii", "markdown"},
         NEW r \in 1 .. Len(t.rows), NEW c \in Columns(t), Len(Cell(t, r, c)) <= Cap
  PROVE  RowLine(layout, t, r)[c].text = Cell(t, r, c)
<1>1. CASE layout = "duckbox"
  BY <1>1, DuckboxRowRuled DEF RowLine
<1>2. CASE layout # "duckbox"
  BY <1>2, TableRowRuled DEF RowLine
<1> QED BY <1>1, <1>2
-----------------------------------------------------------------------------
(***************************************************************************)
(* A json row.                                                             *)
(***************************************************************************)
\* What DuckDB and strconv print for a number or a truth value.
Numbered(t) ==
  \A r \in 1 .. Len(t.rows), c \in Columns(t) :
    /\ t.types[c] \in Ints => ~HasAny(t.rows[r][c].int, {Quote, Comma, "}", "null"})
    /\ t.types[c] \in Floats \cup {"Boolean"}
         => ~HasAny(t.rows[r][c].text, {Quote, Comma, "}", "null"})

\* The characters of a json row.
JsonLetters(S) ==
  Letters(S) \cup {Quote, Comma, Slash, Break, "n", "null", "{", "}", ":"}

JsonText(t, r, c) ==
  IF t.rows[r][c].null THEN <<"null">> ELSE printJSONValue(t.types[c], t.rows[r][c])

IsNull(t, r, c) == t.rows[r][c].null

\* A text that is printed as it is, without any character json gives a meaning.
AsItIs(s) == ~HasAny(s, {Quote, Comma, "}", "null"})

\* A value is printed as null, as it is, or as a string.
PrintedAs(t, r, c, s) ==
  \/ IsNull(t, r, c) /\ s = <<"null">>
  \/ ~IsNull(t, r, c) /\ s = Cell(t, r, c) /\ AsItIs(Cell(t, r, c))
  \/ ~IsNull(t, r, c) /\ s = JsonString(Cell(t, r, c))

\* The json text of a value is null, the bare text of a number or truth
\* value, or a quoted string (main.go:896-963).
LEMMA JsonTextKinds ==
  ASSUME NEW S, NEW t, TableOver(S, t), Numbered(t),
         NEW r \in 1 .. Len(t.rows), NEW c \in Columns(t)
  PROVE  PrintedAs(t, r, c, JsonText(t, r, c))
<1> DEFINE type == t.types[c]
           v == t.rows[r][c]
<1>1. type \in ColTypes
  BY CellOf
<1>2. /\ type \in Ints => AsItIs(v.int)
      /\ type \in Floats \cup {"Boolean"} => AsItIs(v.text)
  BY DEF Numbered, AsItIs
<1>3. /\ IsNull(t, r, c) <=> v.null
      /\ Cell(t, r, c) = formatCell(type, v)
      /\ v.null => JsonText(t, r, c) = <<"null">>
      /\ ~v.null => JsonText(t, r, c) = printJSONValue(type, v)
  BY DEF IsNull, Cell, JsonText
<1> HIDE DEF type, v
<1>4. CASE v.null
  BY <1>3, <1>4 DEF PrintedAs
<1>5. CASE ~v.null /\ type \in Ints
  <2>1. type # "Boolean" /\ type \notin Floats \cup Texts \cup Others
    BY <1>5, GroupsApart
  <2>2. printJSONValue(type, v) = v.int /\ formatCell(type, v) = v.int
    BY <1>5, <2>1 DEF printJSONValue, formatCell
  <2> QED BY <1>2, <1>3, <1>5, <2>2 DEF PrintedAs
<1>6. CASE ~v.null /\ type \in Floats \cup {"Boolean"}
  <2>1. type \notin Ints \cup Texts \cup Others
    BY <1>6, GroupsApart
  <2>2. printJSONValue(type, v) = v.text /\ formatCell(type, v) = v.text
    BY <1>6, <2>1 DEF printJSONValue, formatCell
  <2> QED BY <1>2, <1>3, <1>6, <2>2 DEF PrintedAs
<1>7. CASE ~v.null /\ type \in Texts \cup Others
  <2>1. type # "Boolean" /\ type \notin Ints \cup Floats
    BY <1>7, GroupsApart
  <2>2. printJSONValue(type, v) = JsonString(formatCell(type, v))
    BY <1>7, <2>1 DEF printJSONValue
  <2> QED BY <1>3, <1>7, <2>2 DEF PrintedAs
<1> QED BY <1>1, <1>4, <1>5, <1>6, <1>7 DEF ColTypes

\* The characters of a json row include the escapes and delimiters.
LEMMA JsonAlphabet ==
  ASSUME NEW S
  PROVE  Alphabet(JsonLetters(S)) /\ Letters(S) \subseteq JsonLetters(S)
BY DEF Alphabet, JsonLetters, Escapes

\* A json string is a quote, the escaped text and a quote (main.go:955-958).
LEMMA JsonStringShape ==
  ASSUME NEW S, Alphabet(S), NEW s \in Seq(S)
  PROVE  /\ JsonString(s) \in Seq(S) /\ JsonString(s) # <<>> /\ JsonString(s)[1] = Quote
         /\ JsonString(s) = Cons(Quote, Closing(s, <<>>)) /\ Closing(s, <<>>) \in Seq(S)
<1> DEFINE j == jsonEscapeStr(s)
           q == <<Quote>>
<1>1. Quote \in S /\ j \in Seq(S)
  BY JsonType DEF Alphabet, Escapes
<1>2. q \in Seq(S) /\ q # <<>> /\ q[1] = Quote
  BY <1>1
<1>3. Closing(s, <<>>) = j \o q
  BY ConcatEmptySeq DEF Closing, Cons
<1>4. JsonString(s) = (q \o j) \o q
  BY DEF JsonString
<1> HIDE DEF j, q
<1>5. (q \o j) \o q = q \o (j \o q) /\ j \o q \in Seq(S)
  BY <1>1, <1>2, ConcatAssociative, ConcatProperties
<1> DEFINE k == j \o q
<1>6. k \in Seq(S) /\ JsonString(s) = q \o k
  BY <1>4, <1>5
<1> HIDE DEF k
<1>7. Cons(Quote, k) = JsonString(s)
  BY <1>6 DEF Cons, q
<1>8. JsonString(s) \in Seq(S) /\ JsonString(s) # <<>> /\ JsonString(s)[1] = Quote
  BY <1>1, <1>6, <1>7, ConsProperties
<1> QED BY <1>3, <1>6, <1>7, <1>8 DEF k

\* Different texts are different json strings (main.go:955-973).
LEMMA JsonStringInjective ==
  ASSUME NEW S, Alphabet(S), NEW s \in Seq(S), NEW u \in Seq(S),
         JsonString(s) = JsonString(u)
  PROVE  s = u
<1>1. Quote \in S /\ <<>> \in Seq(S)
  BY DEF Alphabet, Escapes
<1>2. Cons(Quote, Closing(s, <<>>)) = Cons(Quote, Closing(u, <<>>))
  BY JsonStringShape
<1>3. Closing(s, <<>>) \in Seq(S) /\ Closing(u, <<>>) \in Seq(S)
  BY JsonStringShape
<1>4. Closing(s, <<>>) = Closing(u, <<>>)
  BY <1>1, <1>2, <1>3, ConsInjective
<1> QED BY <1>1, <1>4, ClosingInjective

\* The characters of a cell are among those of a json row.
LEMMA CellLetters ==
  ASSUME NEW S, NEW t, TableOver(S, t), NEW r \in 1 .. Len(t.rows), NEW c \in Columns(t)
  PROVE  Cell(t, r, c) \in Seq(Letters(S)) /\ Cell(t, r, c) \in Seq(JsonLetters(S))
<1>1. t.types[c] \in ColTypes /\ t.rows[r][c] \in ValuesOver(S)
  BY CellOf
<1>2. Cell(t, r, c) \in Seq(Letters(S))
  BY <1>1, CellText DEF Cell
<1>3. Letters(S) \subseteq JsonLetters(S)
  BY JsonAlphabet
<1> QED BY <1>2, <1>3, Wider

\* The three ways to print a value are apart.
LEMMA WaysApart ==
  ASSUME NEW S, Alphabet(S), NEW s \in Seq(S)
  PROVE  ~AsItIs(<<"null">>) /\ ~AsItIs(JsonString(s)) /\ JsonString(s) # <<"null">>
<1>1. JsonString(s) \in Seq(S) /\ JsonString(s) # <<>> /\ JsonString(s)[1] = Quote
  BY JsonStringShape
<1> DEFINE q == JsonString(s)
           n == <<"null">>
<1>2. Len(n) = 1 /\ n[1] = "null" /\ 1 \in DOMAIN n
  OBVIOUS
<1> HIDE DEF q, n
<1>3. 1 \in DOMAIN q /\ q[1] = Quote
  BY <1>1 DEF q
<1>4. ~AsItIs(n) /\ ~AsItIs(q)
  BY <1>2, <1>3 DEF AsItIs, HasAny
<1>5. q # n
  BY <1>2, <1>3 DEF Quote
<1> QED BY <1>4, <1>5 DEF q, n

\* Values that have the same json text are both null or both not, and are
\* formatted alike.
LEMMA SamePrinted ==
  ASSUME NEW S, NEW t, TableOver(S, t), NEW u, TableOver(S, u),
         NEW r \in 1 .. Len(t.rows), r \in 1 .. Len(u.rows),
         NEW c \in Columns(t), c \in Columns(u),
         NEW s, PrintedAs(t, r, c, s), PrintedAs(u, r, c, s)
  PROVE  (IsNull(t, r, c) <=> IsNull(u, r, c)) /\ Cell(t, r, c) = Cell(u, r, c)
<1> DEFINE A == JsonLetters(S)
           x == Cell(t, r, c)
           y == Cell(u, r, c)
<1>1. Alphabet(A) /\ x \in Seq(A) /\ y \in Seq(A)
  BY JsonAlphabet, CellLetters
<1>2. /\ ~AsItIs(<<"null">>) /\ ~AsItIs(JsonString(x)) /\ JsonString(x) # <<"null">>
      /\ ~AsItIs(JsonString(y)) /\ JsonString(y) # <<"null">>
  BY <1>1, WaysApart
<1>3. JsonString(x) = JsonString(y) => x = y
  BY <1>1, JsonStringInjective
<1>4. /\ IsNull(t, r, c) => x = NullText
      /\ IsNull(u, r, c) => y = NullText
  BY DEF IsNull, Cell, formatCell
<1> HIDE DEF A, x, y
<1>5. /\ \/ IsNull(t, r, c) /\ s = <<"null">>
         \/ ~IsNull(t, r, c) /\ s = x /\ AsItIs(x)
         \/ ~IsNull(t, r, c) /\ s = JsonString(x)
      /\ \/ IsNull(u, r, c) /\ s = <<"null">>
         \/ ~IsNull(u, r, c) /\ s = y /\ AsItIs(y)
         \/ ~IsNull(u, r, c) /\ s = JsonString(y)
  BY DEF PrintedAs, x, y
<1>6. (IsNull(t, r, c) <=> IsNull(u, r, c)) /\ x = y
  BY <1>2, <1>3, <1>4, <1>5
<1> QED BY <1>6 DEF x, y

\* The json text of a value is a quoted string, or bare: it can be told from
\* what is printed where it ends.
LEMMA WayReadable ==
  ASSUME NEW S, NEW t, TableOver(S, t), Numbered(t),
         NEW r \in 1 .. Len(t.rows), NEW c \in Columns(t)
  PROVE  /\ JsonText(t, r, c) \in Seq(JsonLetters(S))
         /\ Readable(JsonLetters(S), JsonText(t, r, c))
<1> DEFINE A == JsonLetters(S)
           x == Cell(t, r, c)
           s == JsonText(t, r, c)
<1>1. Alphabet(A) /\ x \in Seq(A)
  BY JsonAlphabet, CellLetters
<1>2. \/ s = <<"null">>
      \/ s = x /\ AsItIs(x)
      \/ s = JsonString(x)
  BY JsonTextKinds DEF PrintedAs
<1>3. "null" \in A
  BY DEF JsonLetters
<1> HIDE DEF A, x, s
<1>4. CASE s = <<"null">>
  <2>1. s \in Seq(A)
    BY <1>3, <1>4
  <2>2. Bare(s)
    <3>1. \A i \in DOMAIN s : s[i] = "null"
      BY <1>4
    <3>2. "null" \notin Delimiters \cup {Quote}
      BY DEF Delimiters, Quote, Comma
    <3> QED BY <3>1, <3>2 DEF Bare, HasAny
  <2> QED BY <2>1, <2>2 DEF Readable, A, s
<1>5. CASE s = x /\ AsItIs(x)
  <2>1. Bare(s)
    BY <1>5 DEF Bare, AsItIs, HasAny, Delimiters
  <2> QED BY <1>1, <1>5, <2>1 DEF Readable, A, s
<1>6. CASE s = JsonString(x)
  <2>1. s \in Seq(A)
    BY <1>1, <1>6, JsonStringShape
  <2> QED BY <1>1, <1>6, <2>1 DEF Readable, A, s
<1> QED BY <1>2, <1>4, <1>5, <1>6

\* Texts of one and of three characters.
LEMMA Characters ==
  ASSUME NEW S
  PROVE  /\ \A a \in S : <<a>> \in Seq(S) /\ <<a>> # <<>> /\ <<a>>[1] = a
         /\ \A a, b, c \in S : <<a, b, c>> \in Seq(S)
OBVIOUS

\* What stands before and after a value of a json row.
JsonAfter(t, c) == IF c = Len(t.names) THEN <<"}">> ELSE <<>>

JsonBefore(t, r, c) ==
  (IF c > 1 THEN <<Comma>> ELSE JsonStart(r)) \o JsonString(t.names[c]) \o <<":">>

\* What stands before the value of a json field begins with a comma, from the
\* second field on (main.go:883-895).
LEMMA JsonBeforeType ==
  ASSUME NEW S, NEW t, TableOver(S, t), NEW r, NEW c \in Columns(t)
  PROVE  /\ JsonBefore(t, r, c) \in Seq(JsonLetters(S))
         /\ c > 1 => /\ JsonBefore(t, r, c) # <<>>
                     /\ JsonBefore(t, r, c)[1] \in Delimiters
<1> DEFINE A == JsonLetters(S)
           start == IF c > 1 THEN <<Comma>> ELSE JsonStart(r)
           name == JsonString(t.names[c])
           colon == <<":">>
<1>1. Comma \in A /\ Break \in A /\ "{" \in A /\ ":" \in A
  BY DEF JsonLetters
<1>2. t.names[c] \in Seq(S)
  BY CellOf
<1>3. S \subseteq A /\ Alphabet(A)
  BY JsonAlphabet DEF JsonLetters, Letters
<1>4. JsonBefore(t, r, c) = (start \o name) \o colon
  BY DEF JsonBefore
<1> HIDE DEF A
<1>5. t.names[c] \in Seq(A)
  BY <1>2, <1>3, Wider
<1>6. name \in Seq(A)
  BY <1>3, <1>5, JsonStringShape
<1>7. start \in Seq(A) /\ colon \in Seq(A)
  <2>1. <<Comma>> \in Seq(A) /\ <<"{">> \in Seq(A) /\ <<":">> \in Seq(A)
    BY <1>1, Characters
  <2>2. <<Comma, Break, "{">> \in Seq(A)
    BY <1>1, Characters
  <2>3. start \in {<<Comma>>, <<"{">>, <<Comma, Break, "{">>}
    BY DEF JsonStart
  <2> QED BY <2>1, <2>2, <2>3
<1>8. c > 1 => start # <<>> /\ start[1] = Comma
  OBVIOUS
<1> HIDE DEF start, name, colon
<1>9. start \o name \in Seq(A) /\ (start \o name) \o colon \in Seq(A)
  BY <1>6, <1>7, ConcatProperties
<1>10. start # <<>> => start \o name # <<>> /\ (start \o name)[1] = start[1]
  BY <1>6, <1>7, FirstOfConcat
<1> DEFINE two == start \o name
<1> HIDE DEF two
<1>11. two # <<>> => two \o colon # <<>> /\ (two \o colon)[1] = two[1]
  BY <1>7, <1>9, FirstOfConcat DEF two
<1>12. c > 1 => two \o colon # <<>> /\ (two \o colon)[1] = Comma
  BY <1>8, <1>10, <1>11 DEF two
<1> QED BY <1>4, <1>9, <1>12 DEF two, A, Delimiters

\* The fields of a json row.
JsonFields(q, t, r) ==
  /\ Len(q) = Len(t.names) /\ Len(t.names) \in Nat
  /\ \A c \in 1 .. Len(t.names) :
       /\ q[c].before = JsonBefore(t, r, c) /\ q[c].text = JsonText(t, r, c)
       /\ q[c].after = JsonAfter(t, c)
       /\ q[c] = [before |-> q[c].before, text |-> q[c].text, after |-> q[c].after]
  /\ q = [c \in 1 .. Len(t.names) |-> q[c]]

\* A json row, field by field (main.go:883-907).
LEMMA JsonRowFields ==
  ASSUME NEW S, NEW t, TableOver(S, t), NEW r \in 1 .. Len(t.rows)
  PROVE  JsonFields(JsonRow(t, r), t, r)
<1> DEFINE n == Len(t.names)
           F(c) == Field(JsonBefore(t, r, c), JsonText(t, r, c),
                         JsonAfter(t, c))
           q == [c \in 1 .. n |-> F(c)]
<1>1. JsonRow(t, r) = q
  BY DEF JsonRow, JsonBefore, JsonAfter, JsonText, Columns
<1>2. n \in Nat
  BY DEF TableOver
<1>3. \A c \in 1 .. n :
        /\ F(c).before = JsonBefore(t, r, c) /\ F(c).text = JsonText(t, r, c)
        /\ F(c).after = JsonAfter(t, c)
        /\ F(c) = [before |-> F(c).before, text |-> F(c).text, after |-> F(c).after]
  BY DEF Field
<1> HIDE DEF F
<1>4. (\A c \in 1 .. n : q[c] = F(c)) /\ q = [c \in 1 .. n |-> q[c]]
  OBVIOUS
<1>5. Row(q, n)
  BY <1>2, <1>4 DEF Row
<1> HIDE DEF q, n
<1>6. Len(q) = n
  BY <1>5, RowOver
<1> QED BY <1>1, <1>2, <1>3, <1>4, <1>6 DEF n, JsonFields

\* The values of a json row are delimited.
LEMMA JsonRowDelimited ==
  ASSUME NEW S, NEW t, TableOver(S, t), Numbered(t), NEW r \in 1 .. Len(t.rows)
  PROVE  /\ JsonRow(t, r) \in Seq(FieldsOver(JsonLetters(S)))
         /\ Delimited(JsonLetters(S), JsonRow(t, r))
<1> DEFINE A == JsonLetters(S)
           n == Len(t.names)
           q == JsonRow(t, r)
<1>1. /\ Len(q) = n /\ n \in Nat /\ q = [c \in 1 .. n |-> q[c]]
      /\ \A c \in 1 .. n :
              /\ q[c].before = JsonBefore(t, r, c) /\ q[c].text = JsonText(t, r, c)
              /\ q[c].after = JsonAfter(t, c)
              /\ q[c] = [before |-> q[c].before, text |-> q[c].text, after |-> q[c].after]
  BY JsonRowFields DEF JsonFields
<1>2. /\ \A c \in 1 .. n : JsonAfter(t, c) \in Seq(A)
      /\ \A c \in 1 .. n : c < n => JsonAfter(t, c) = <<>>
      /\ \A c \in 1 .. n : c = n => /\ JsonAfter(t, c) # <<>>
                                  /\ JsonAfter(t, c)[1] \in Delimiters
  <2> DEFINE e == "}"
  <2>1. e \in A /\ e \in Delimiters
    BY DEF JsonLetters, Delimiters
  <2> HIDE DEF e
  <2>2. /\ <<e>> \in Seq(A) /\ <<e>> # <<>> /\ <<e>>[1] \in Delimiters
        /\ <<>> \in Seq(A)
    BY <2>1, Characters
  <2>3. n \in Nat
    BY DEF TableOver
  <2> DEFINE x == <<e>>
  <2>4. \A c \in 1 .. n : /\ c = n => JsonAfter(t, c) = x
                          /\ c # n => JsonAfter(t, c) = <<>>
    BY DEF JsonAfter, e
  <2>5. x \in Seq(A) /\ x # <<>> /\ x[1] \in Delimiters /\ <<>> \in Seq(A)
    BY <2>2
  <2> HIDE DEF x, n
  <2>6. \A c \in 1 .. n : c < n => c # n
    BY <2>3
  <2>7. ASSUME NEW c \in 1 .. n, c = n
        PROVE  /\ JsonAfter(t, c) \in Seq(A) /\ JsonAfter(t, c) # <<>>
               /\ JsonAfter(t, c)[1] \in Delimiters
    <3>1. JsonAfter(t, c) = x
      BY <2>4, <2>7
    <3> QED BY <2>5, <3>1
  <2>8. ASSUME NEW c \in 1 .. n, c # n
        PROVE  JsonAfter(t, c) \in Seq(A) /\ JsonAfter(t, c) = <<>>
    BY <2>4, <2>5, <2>8
  <2> QED BY <2>6, <2>7, <2>8
<1>3. ASSUME NEW c \in 1 .. n
      PROVE  /\ JsonBefore(t, r, c) \in Seq(A)
             /\ c > 1 => JsonBefore(t, r, c) # <<>> /\ JsonBefore(t, r, c)[1] \in Delimiters
             /\ JsonText(t, r, c) \in Seq(A) /\ Readable(A, JsonText(t, r, c))
  <2>1. c \in Columns(t)
    BY DEF Columns
  <2> QED BY <2>1, JsonBeforeType, WayReadable
<1> HIDE DEF A, n, q
<1>4. ASSUME NEW c \in 1 .. n
      PROVE  q[c] \in FieldsOver(A)
  <2>1. q[c].after \in Seq(A)
    BY <1>1, <1>2
  <2>2. q[c].before \in Seq(A) /\ q[c].text \in Seq(A)
    BY <1>1, <1>3
  <2> QED BY <1>1, <2>1, <2>2 DEF FieldsOver
<1> DEFINE F == FieldsOver(A)
<1> HIDE DEF F
<1>5. q \in Seq(F)
  <2>1. q \in [1 .. n -> F]
    BY <1>1, <1>4 DEF F
  <2> QED BY <1>1, <2>1
<1>6. \A c \in 1 .. n : Readable(A, q[c].text)
  BY <1>1, <1>3
<1>7. \A c \in 1 .. n : c = n => q[c].after # <<>> /\ q[c].after[1] \in Delimiters
  BY <1>1, <1>2
<1>8. ASSUME NEW c \in 1 .. n, c < n
      PROVE  /\ q[c].after = <<>> /\ q[c + 1].before # <<>>
             /\ q[c + 1].before[1] \in Delimiters
  <2>1. q[c].after = <<>>
    BY <1>1, <1>2, <1>8
  <2>2. PICK d \in 1 .. n : d = c + 1 /\ d > 1
    BY <1>1, <1>8
  <2>3. q[d].before = JsonBefore(t, r, d)
    BY <1>1
  <2> QED BY <1>3, <2>1, <2>2, <2>3
<1>9. Delimited(A, q)
  BY <1>1, <1>6, <1>7, <1>8 DEF Delimited
<1> QED BY <1>5, <1>9 DEF A, q, F

\* A json row can be read back: rows with the same names that are printed
\* alike hold the same values, nulls told from texts, whatever their types
\* (main.go:881-973).
THEOREM JsonRowReadable ==
  ASSUME NEW S, NEW t, TableOver(S, t), Numbered(t), NEW u, TableOver(S, u), Numbered(u),
         t.names = u.names, NEW r \in 1 .. Len(t.rows), r \in 1 .. Len(u.rows),
         Printed(JsonRow(t, r)) = Printed(JsonRow(u, r))
  PROVE  \A c \in Columns(t) :
           (IsNull(t, r, c) <=> IsNull(u, r, c)) /\ Cell(t, r, c) = Cell(u, r, c)
<1> DEFINE A == JsonLetters(S)
           n == Len(t.names)
           f == JsonRow(t, r)
           g == JsonRow(u, r)
<1>1. /\ f \in Seq(FieldsOver(A)) /\ Delimited(A, f)
      /\ g \in Seq(FieldsOver(A)) /\ Delimited(A, g) /\ Alphabet(A)
  BY JsonRowDelimited, JsonAlphabet
<1>2. /\ Len(f) = n /\ \A c \in 1 .. n :
              /\ f[c].before = JsonBefore(t, r, c) /\ f[c].text = JsonText(t, r, c)
              /\ f[c].after = JsonAfter(t, c)
  <2>1. JsonFields(f, t, r)
    BY JsonRowFields
  <2> HIDE DEF f
  <2> QED BY <2>1 DEF JsonFields
<1>3. /\ Len(g) = n /\ \A c \in 1 .. n :
              /\ g[c].before = JsonBefore(u, r, c) /\ g[c].text = JsonText(u, r, c)
              /\ g[c].after = JsonAfter(u, c)
  <2>1. JsonFields(g, u, r)
    BY JsonRowFields
  <2> HIDE DEF g
  <2> QED BY <2>1 DEF JsonFields
<1>4. \A c \in 1 .. n : /\ JsonBefore(t, r, c) = JsonBefore(u, r, c)
                        /\ JsonAfter(t, c) = JsonAfter(u, c)
  BY DEF JsonBefore, JsonAfter
<1> HIDE DEF A, f, g
<1>5. SameFrame(f, g)
  BY <1>2, <1>3, <1>4 DEF SameFrame
<1>6. Printed(f) = Printed(g)
  BY DEF f, g
<1>7. SameTexts(f, g)
  BY <1>1, <1>5, <1>6, LineReadable
<1>8. \A c \in 1 .. n : JsonText(t, r, c) = JsonText(u, r, c)
  BY <1>2, <1>3, <1>7 DEF SameTexts
<1> SUFFICES ASSUME NEW c \in Columns(t)
             PROVE  (IsNull(t, r, c) <=> IsNull(u, r, c)) /\ Cell(t, r, c) = Cell(u, r, c)
  OBVIOUS
<1>9. c \in 1 .. n /\ c \in Columns(u)
  BY DEF Columns
<1>10. PrintedAs(t, r, c, JsonText(t, r, c)) /\ PrintedAs(u, r, c, JsonText(t, r, c))
  BY <1>8, <1>9, JsonTextKinds
<1> QED BY <1>9, <1>10, SamePrinted
-----------------------------------------------------------------------------
(***************************************************************************)
(* A csv field.                                                            *)
(***************************************************************************)
\* f is read back as the text x, among the texts over S.
ReadBack(S, f, x) ==
  /\ \A s \in Seq(S) : csvEscape(s) = f => s = x
  /\ HasAny(f, {Comma, Break, Quote}) =>
       f[1] = Quote /\ \A j \in DOMAIN f : Closes(f, j) <=> j = Len(f)

\* A csv field can be read back: no other text over the same characters is
\* escaped to it, and if it has commas, newlines or quotes in it, it is quoted
\* and ends, for a reader, at its last character and nowhere before
\* (main.go:1080-1086).
THEOREM CsvFieldReadable ==
  ASSUME NEW S, NEW t, TableOver(S, t), NEW r \in 1 .. Len(t.rows), NEW c \in Columns(t)
  PROVE  ReadBack(JsonLetters(S), RowLine("csv", t, r)[c].text, Cell(t, r, c))
<1> DEFINE A == JsonLetters(S)
           x == Cell(t, r, c)
           f == RowLine("csv", t, r)[c].text
<1>1. Quote \in A /\ x \in Seq(A)
  BY CellLetters DEF JsonLetters
<1>2. f = csvEscape(x)
  <2> DEFINE q == [d \in Columns(t) |-> Cell(t, r, d)]
  <2>1. RowLine("csv", t, r) = CsvLine(q)
    BY DEF RowLine, CsvRow
  <2>2. DOMAIN q = Columns(t) /\ q[c] = x
    OBVIOUS
  <2> HIDE DEF q
  <2>3. CsvLine(q)[c].text = csvEscape(q[c])
    BY <2>2 DEF CsvLine, Field
  <2> QED BY <2>1, <2>2, <2>3
<1> HIDE DEF A, x, f
<1>3. \A s \in Seq(A) : csvEscape(s) = f => s = x
  BY <1>1, <1>2, CsvEscapeInjective
<1>4. HasAny(f, {Comma, Break, Quote}) =>
        f[1] = Quote /\ \A j \in DOMAIN f : Closes(f, j) <=> j = Len(f)
  BY <1>1, <1>2, CsvFieldEnds
<1> QED BY <1>3, <1>4 DEF ReadBack, A, x, f
=============================================================================
