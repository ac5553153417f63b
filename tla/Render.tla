------------------------------- MODULE Render -------------------------------
(***************************************************************************)
(* The layouts of main.go: how cells become texts, how wide the columns    *)
(* are, and what is printed for the names, the rows and the end of a       *)
(* result.  A text is a sequence of characters, a line a sequence of       *)
(* fields: the text of a name, type or value with what is printed before   *)
(* it (borders, separators, padding) and after it.                         *)
(***************************************************************************)
EXTENDS Integers, SequencesExt, Types

CONSTANTS
  Cap,      \* maxDuckboxColWidth, 256 in the program
  MaxCell   \* maxCell, 4096 in the program

ASSUME CapAssumption == Cap \in Nat /\ Cap > 3 /\ MaxCell \in Nat

\* Characters that matter to a layout; every other one stands for itself.
Quote == "q"      \* the double quote
Comma == ","
Slash == "\\"
Break == "nl"

NullText  == <<"N", "U", "L", "L">>
Unknown   == <<"?">>
TooLong   == [i \in 1 .. 16 |-> "~"]     \* <value too long>
Dots      == <<".", ".", ".">>
Blanks(n) == [i \in 1 .. n |-> " "]
Dashes(n) == [i \in 1 .. n |-> "-"]
Bar       == <<"|">>
Blank     == <<" ">>

Strings == Seq(STRING)

Field(before, text, after) == [before |-> before, text |-> text, after |-> after]

Width(f) == Len(f.before) + Len(f.text) + Len(f.after)

\* A line with nothing but a text, and the bar at the end of a table's line.
Plain(text) == <<Field(<<>>, text, <<>>)>>
Edge == Field(Bar, <<>>, <<>>)

\* The characters of a line.
Printed(line) ==
  FlattenSeq([i \in DOMAIN line |->
                line[i].before \o line[i].text \o line[i].after])

\* A value: text is what strconv makes of a float, "true" or "false", and
\* DuckDB's own text for every other type; int is the text of its cast to an
\* int64, the same for an integer.  DuckDB has no text for one that is unread.
Value(text, int) == [null |-> FALSE, unread |-> FALSE, text |-> text, int |-> int]
Null   == [null |-> TRUE, unread |-> FALSE, text |-> <<>>, int |-> <<>>]
Unread == [null |-> FALSE, unread |-> TRUE, text |-> <<>>, int |-> <<"0">>]
Values == [null : BOOLEAN, unread : BOOLEAN, text : Strings, int : Strings]

(***************************************************************************)
(* Cells.                                                                  *)
(***************************************************************************)
\* formatCell.  IsNull and ColumnType fail for an index outside the result
\* only, and printResult asks for none; Bool, Int64 and Float64 fail for such
\* an index or a null only, so the default branch never gets to its Float64
\* and StringCopy.  StringCopy fails as well when DuckDB has no text.
formatCell(type, v) ==
  IF v.null THEN NullText
  ELSE CASE type \in Ints \cup Others            -> v.int
         [] type \in Floats \cup {"Boolean"}     -> v.text
         [] type \in Texts -> IF v.unread THEN Unknown
                              ELSE IF Len(v.text) > MaxCell THEN TooLong ELSE v.text

clamp(w) == IF w < 0 THEN 0 ELSE IF w > Cap THEN Cap ELSE w

\* Mutant: the measure takes every value for an integer.
measureAsInt(type, v) == IF v.null THEN Len(NullText) ELSE clamp(Len(v.int))

measureCellWidth(type, v) ==
  IF v.null THEN Len(NullText)
  ELSE CASE type \in Ints       -> Len(v.int)
         [] type = "Boolean"    -> Len(v.text)
         [] type \in Floats     -> clamp(Len(v.text))
         [] type \in Texts \cup Others -> clamp(Len(formatCell(type, v)))

previewStr(s, max) ==
  LET m == IF max <= 0 THEN 1 ELSE max
  IN IF Len(s) <= m THEN s
     ELSE IF m <= 3 THEN SubSeq(s, 1, m)
     ELSE SubSeq(s, 1, m - 3) \o Dots

(***************************************************************************)
(* A result, as the renderers read it: names, types and rows of values.    *)
(***************************************************************************)
Columns(t) == 1 .. Len(t.names)

Tabular(t) ==
  /\ t.names \in Seq(Strings)
  /\ t.types \in Seq(ColTypes) /\ Len(t.types) = Len(t.names)
  /\ t.rows \in Seq(Seq(Values))
  /\ \A r \in DOMAIN t.rows : Len(t.rows[r]) = Len(t.names)

Cell(t, r, c) == formatCell(t.types[c], t.rows[r][c])

Label(t, c) == previewStr(t.names[c], Cap)

\* Mutant: the width of a column is the one of its name.
widthOfName(t, c) == clamp(Len(Label(t, c)))

columnWidth(t, c) ==
  clamp(Max({Len(Label(t, c))} \cup
            {measureCellWidth(t.types[c], t.rows[r][c]) : r \in DOMAIN t.rows}))

\* A label is known by its length.
TypeLabel(type) == [i \in 1 .. Len(PhysicalTypeLabel[type]) |-> "t"]

duckboxWidth(t, c) ==
  clamp(Max({columnWidth(t, c), Len(TypeLabel(t.types[c]))}))

(***************************************************************************)
(* ascii and markdown.                                                     *)
(***************************************************************************)
TableField(s, w) == Field(Bar \o Blank, s, Blanks(w - Len(s)) \o Blank)

TableNames(t) ==
  Append([c \in Columns(t) |-> TableField(Label(t, c), columnWidth(t, c))], Edge)

\* Mutant: the padding beside the widest cell is left out.
TableRuleShort(t, markdown) ==
  Append([c \in Columns(t) |-> Field(Bar, Dashes(clamp(columnWidth(t, c))), <<>>)], Edge)

TableRule(t, markdown) ==
  LET ends == IF markdown THEN <<"-">> ELSE <<>>
  IN Append([c \in Columns(t) |->
       Field(Bar \o ends, Dashes(clamp(columnWidth(t, c)) + 2), ends)], Edge)

TableRow(t, r) ==
  Append([c \in Columns(t) |->
           LET w == columnWidth(t, c)
           IN TableField(previewStr(Cell(t, r, c), w), w)], Edge)

(***************************************************************************)
(* duckbox.                                                                *)
(***************************************************************************)
duckboxPadPrint(s, w, align) ==
  LET text == IF Len(s) > clamp(w) THEN previewStr(s, clamp(w)) ELSE s
      pad  == clamp(clamp(w) - Len(text))
      left == CASE align = "r" -> pad [] align = "c" -> pad \div 2 [] align = "l" -> 0
  IN Field(Blanks(left), text, Blanks(pad - left))

DuckboxField(s, w, align) ==
  LET cell == duckboxPadPrint(s, w, align)
  IN Field(Bar \o Blank \o cell.before, cell.text, cell.after \o Blank)

DuckboxRule(t) ==
  Append([c \in Columns(t) |->
           Field(Bar, Dashes(clamp(duckboxWidth(t, c)) + 2), <<>>)], Edge)

DuckboxNames(t) ==
  Append([c \in Columns(t) |-> DuckboxField(Label(t, c), duckboxWidth(t, c), "l")], Edge)

DuckboxTypes(t) ==
  Append([c \in Columns(t) |->
           DuckboxField(TypeLabel(t.types[c]), duckboxWidth(t, c), "c")], Edge)

DuckboxRow(t, r) ==
  Append([c \in Columns(t) |->
           LET w == duckboxWidth(t, c)
           IN DuckboxField(previewStr(Cell(t, r, c), w), w,
                           IF t.types[c] \in Numeric THEN "r" ELSE "l")], Edge)

(***************************************************************************)
(* csv and json.                                                           *)
(***************************************************************************)
\* strings.ReplaceAll of one character.
Replace(s, ch, by) ==
  FlattenSeq([i \in DOMAIN s |-> IF s[i] = ch THEN by ELSE <<s[i]>>])

HasAny(s, chars) == \E i \in DOMAIN s : s[i] \in chars

\* Mutant: quotes inside a quoted field are not doubled.
csvQuoteOnly(s) ==
  IF HasAny(s, {Comma, Quote, Break}) THEN <<Quote>> \o s \o <<Quote>> ELSE s

csvEscape(s) ==
  IF HasAny(s, {Comma, Quote, Break})
  THEN <<Quote>> \o Replace(s, Quote, <<Quote, Quote>>) \o <<Quote>>
  ELSE s

Quotes(f, j) == Cardinality({i \in 1 .. j : f[i] = Quote})

\* A reader of csv takes a field that begins with a quote to end at the
\* quote j: it is not one of the opening quotes and not followed by another.
Closes(f, j) ==
  f[j] = Quote /\ Quotes(f, j) % 2 = 0 /\ ~(j < Len(f) /\ f[j + 1] = Quote)

\* sep is empty when it is printed for the first time and "," from then on.
CsvLine(fields) ==
  [c \in DOMAIN fields |->
    Field(IF c > 2 THEN <<Comma>> ELSE <<>>, csvEscape(fields[c]), <<>>)]

CsvNames(t)  == CsvLine(t.names)
CsvRow(t, r) == CsvLine([c \in Columns(t) |-> Cell(t, r, c)])

\* Mutant: backslashes are escaped last, those of the other escapes too.
jsonEscapeSlashLast(s) ==
  Replace(Replace(Replace(s, Quote, <<Slash, Quote>>), Break, <<Slash, "n">>),
          Slash, <<Slash, Slash>>)

jsonEscapeStr(s) ==
  Replace(Replace(Replace(s, Slash, <<Slash, Slash>>), Quote, <<Slash, Quote>>),
          Break, <<Slash, "n">>)

JsonString(s) == <<Quote>> \o jsonEscapeStr(s) \o <<Quote>>

printJSONValue(type, v) ==
  CASE type \in Ints                       -> v.int
    [] type \in Floats \cup {"Boolean"}    -> v.text
    [] type \in Texts \cup Others          -> JsonString(formatCell(type, v))

JsonStart(r) == IF r > 1 THEN <<Comma, Break, "{">> ELSE <<"{">>

JsonRow(t, r) ==
  [c \in Columns(t) |->
    Field((IF c > 1 THEN <<Comma>> ELSE JsonStart(r)) \o JsonString(t.names[c]) \o <<":">>,
          IF t.rows[r][c].null THEN <<"null">>
                               ELSE printJSONValue(t.types[c], t.rows[r][c]),
          IF c = Len(t.names) THEN <<"}">> ELSE <<>>)]

(***************************************************************************)
(* column.                                                                 *)
(***************************************************************************)
ColumnLine(fields) ==
  [c \in DOMAIN fields |-> Field(IF c > 1 THEN <<"tab">> ELSE <<>>, fields[c], <<>>)]

ColumnRule(t) == Plain(Dashes(IF 8 * Len(t.names) > Cap + 2 THEN Cap + 2
                                                            ELSE 8 * Len(t.names)))

(***************************************************************************)
(* printResult: the lines before the rows, of a row, and after the rows.   *)
(***************************************************************************)
Heading(layout, t) ==
  CASE layout = "csv"      -> <<CsvNames(t)>>
    [] layout = "json"     -> <<Plain(<<"[">>)>>
    [] layout = "column"   -> <<ColumnLine(t.names), ColumnRule(t)>>
    [] layout = "ascii"    -> <<TableNames(t), TableRule(t, FALSE)>>
    [] layout = "markdown" -> <<TableNames(t), TableRule(t, TRUE)>>
    [] layout = "duckbox"  -> <<DuckboxRule(t), DuckboxNames(t), DuckboxTypes(t),
                                DuckboxRule(t)>>

RowLine(layout, t, r) ==
  CASE layout = "csv"     -> CsvRow(t, r)
    [] layout = "json"    -> JsonRow(t, r)
    [] layout = "column"  -> ColumnLine([c \in Columns(t) |-> Cell(t, r, c)])
    [] layout = "duckbox" -> DuckboxRow(t, r)
    [] layout \in {"ascii", "markdown"} -> TableRow(t, r)

Ending(layout, t) ==
  CASE layout = "json"    -> <<Plain(<<"]">>)>>
    [] layout = "duckbox" -> <<DuckboxRule(t)>>
    [] layout \in {"csv", "column", "ascii", "markdown"} -> <<>>
=============================================================================
